---- MODULE Spec2Model ----
(***************************************************************************)
(* Verification model of the UnidbgTraceViewer analysis core               *)
(* (src/trace_viewer/trace_parser.py): the trace parser and indexer, the   *)
(* register reconstructor with checkpoints and LRU, the effective-address  *)
(* resolver and the forward / backward taint engines.                      *)
(*                                                                         *)
(* Representation.  Python dicts whose iteration order the code relies on  *)
(* (ev.reads, ev.writes, the OrderedDict caches) are sequences of pairs in *)
(* insertion order; register maps that are only looked up, copied and      *)
(* updated are TLA+ functions.  An instruction text is a record of the     *)
(* pieces the code's string tests look at: the mnemonic, the operand       *)
(* texts, the bracketed address expression and the register list.          *)
(***************************************************************************)
EXTENDS Integers, Sequences, FiniteSets, TLC

VARIABLES
    events,            \* self.events
    current_regs,      \* self._current_regs
    reg_checkpoints,   \* self._reg_checkpoints : line -> register map
    call_stack,        \* self._call_stack
    next_call_id,      \* self._next_call_id
    line,              \* number of input lines consumed by parse_file
    phase,             \* "parse" while parse_file runs, "query" after it returned
    regs_cache,        \* self._regs_cache (OrderedDict, oldest first)
    recent_access_idx, \* self._recent_access_idx
    effaddr_cache,     \* self._effaddr_cache (OrderedDict, oldest first)
    store_addr_index,  \* self.store_addr_index : byte address -> sorted event indices
    addr_index,        \* self.addr_index : pc -> event indices
    reg_read_index,    \* self.reg_read_index : register name -> event indices
    reg_write_index,   \* self.reg_write_index : register name -> event indices
    last,              \* the last query call: its name, argument and result
    tf,                \* the running taint query (forward or backward)
    returned,          \* the taint queries that returned to their caller, in order
    workers            \* the TaintWorker threads of the value-flow dock

vars == <<events, current_regs, reg_checkpoints, call_stack, next_call_id, line,
          phase, regs_cache, recent_access_idx, effaddr_cache, store_addr_index,
          addr_index, reg_read_index, reg_write_index, last, tf, returned, workers>>

(***************************************************************************)
(* Bounds of the model and scaled program constants.                      *)
(***************************************************************************)
\* longest trace (number of input lines) of the register / address models
MaxLines == 5
\* longest trace of the address model
MaxAddrLines == 3
\* longest trace the generic taint models parse
MaxTaintLines == 3
\* TraceParser(checkpoint_interval=...): a constructor argument (default 2000),
\* scaled to the length of the modelled inputs
CheckpointInterval == 4
\* self._regs_cache_cap (1024 in the source), scaled to the short traces
RegsCacheCap == 2
\* self._effaddr_cache_cap (8192 in the source), scaled
EffaddrCacheCap == 2
\* "abs(event_index - recent) < 100" of the sequential-access test, scaled
SeqWindow == 3
\* "replay_distance > 50" of the mid-point snapshot, scaled
MidpointDist == 2
\* "& 0xFFFFFFFF": addresses are reduced modulo 2^32; scaled to modulo 2^16 so
\* that wrap-around happens inside the integers of the model checker
AddrMod == 65536
\* "idx > 50" / "range(idx - 1, max(0, idx - 50), -1)" of the parameter rule
ParamWindow == 50

\* Optional[int]: None is the empty sequence, a value v is <<v>>
None == << >>

Some(v) == <<v>>

(***************************************************************************)
(* Ordered dicts (sequences of <<key, value>>) and register maps.         *)
(***************************************************************************)
Keys(d) == [j \in 1..Len(d) |-> d[j][1]]

KeySet(d) == {d[j][1] : j \in 1..Len(d)}

Has(d, k) == \E j \in 1..Len(d) : d[j][1] = k

Get(d, k) == d[CHOOSE j \in 1..Len(d) : d[j][1] = k][2]

EmptyMap == [x \in {} |-> 0]

MapSet(m, k, v) == [x \in (DOMAIN m) \cup {k} |-> IF x = k THEN v ELSE m[x]]

MapSetDefault(m, k, v) == IF k \in DOMAIN m THEN m ELSE MapSet(m, k, v)

\* OrderedDict.__setitem__: a present key keeps its place, a new one goes last
ODictSet(d, k, v) ==
    IF Has(d, k)
    THEN [j \in 1..Len(d) |-> IF d[j][1] = k THEN <<k, v>> ELSE d[j]]
    ELSE Append(d, <<k, v>>)

\* OrderedDict.move_to_end(k)
ODictMoveToEnd(d, k) ==
    LET j == CHOOSE x \in 1..Len(d) : d[x][1] = k
    IN  Append(SubSeq(d, 1, j - 1) \o SubSeq(d, j + 1, Len(d)), d[j])

\* "d[k] = v; if len(d) > cap: d.popitem(last=False)"
ODictSetTrim(d, k, v, cap) ==
    LET d2 == ODictSet(d, k, v)
    IN  IF Len(d2) > cap THEN Tail(d2) ELSE d2

Max(a, b) == IF a >= b THEN a ELSE b

Min(a, b) == IF a <= b THEN a ELSE b

Abs(a) == IF a >= 0 THEN a ELSE -a

(***************************************************************************)
(* Instruction texts and events.                                           *)
(***************************************************************************)
\* no bracketed address expression in the text
NoMem == [has |-> FALSE, base |-> "", imm |-> None, index |-> "", mod |-> "",
          shift |-> None, bang |-> FALSE, postimm |-> None]

\* "[base]"
MemBase(b) == [NoMem EXCEPT !.has = TRUE, !.base = b]

\* "[base, #imm]"
MemImm(b, n) == [NoMem EXCEPT !.has = TRUE, !.base = b, !.imm = Some(n)]

\* "[base, #imm]!"
MemPre(b, n) == [NoMem EXCEPT !.has = TRUE, !.base = b, !.imm = Some(n), !.bang = TRUE]

\* "[base], #imm"
MemPost(b, n) == [NoMem EXCEPT !.has = TRUE, !.base = b, !.postimm = Some(n)]

\* "[base, index]"
MemIdx(b, x) == [NoMem EXCEPT !.has = TRUE, !.base = b, !.index = x]

\* "[base, index, lsl #n]" / "[base, index, uxtw #n]"
MemIdxShift(b, x, m, n) ==
    [NoMem EXCEPT !.has = TRUE, !.base = b, !.index = x, !.mod = m, !.shift = Some(n)]

\* the text "mnem op1, op2, ..., [mem]" or "mnem {rlist}"
Asm(mnem, ops, mem, rlist) == [mnem |-> mnem, ops |-> ops, mem |-> mem, rlist |-> rlist]

\* TraceEvent.__init__ as _parse_line calls it
TraceEvent(asm, reads, writes) ==
    [line_no |-> 0, pc |-> 0, asm |-> asm, reads |-> reads, writes |-> writes,
     effaddr |-> None, mem_width |-> 0, mem_op |-> "", call_id |-> 0, call_depth |-> 0]

\* one register-list item: a single name, or a range "r3-r5"
One(r) == <<r>>

Range(pfx, lo, hi) == <<pfx, lo, hi>>

RName ==
    [p \in {"r", "x", "w"} |->
        IF p = "r" THEN <<"r0", "r1", "r2", "r3", "r4", "r5", "r6", "r7">>
        ELSE IF p = "x" THEN <<"x0", "x1", "x2", "x3", "x4", "x5", "x6", "x7">>
        ELSE <<"w0", "w1", "w2", "w3", "w4", "w5", "w6", "w7">>]

\* does the text mention the name r (as an operand, in the address or the list)
Mentions(a, r) ==
    \/ \E j \in 1..Len(a.ops) : a.ops[j] = r
    \/ a.mem.has /\ (a.mem.base = r \/ a.mem.index = r)
    \/ \E j \in 1..Len(a.rlist) : a.rlist[j] = One(r)

\* asm.startswith('ldr') / asm.startswith('str')
StartsLdr(a) == a.mnem \in {"ldr", "ldrb", "ldrh", "ldrd", "ldrsb", "ldrsh"}

StartsStr(a) == a.mnem \in {"str", "strb", "strh", "strd"}

(***************************************************************************)
(* Parsing: parse_file's loop body.                                       *)
(***************************************************************************)
\* _alias_names: the name and, for xN / wN, its counterpart
alias_names(name) ==
    {name}
    \cup {RName["w"][j] : j \in {k \in 1..Len(RName["x"]) : RName["x"][k] = name}}
    \cup {RName["x"][j] : j \in {k \in 1..Len(RName["w"]) : RName["w"][k] = name}}

\* the list _alias_names returns: the name first
alias_list(name) ==
    IF alias_names(name) = {name} THEN <<name>>
    ELSE <<name, CHOOSE a \in alias_names(name) : a # name>>

\* "index.setdefault(key, []).append(idx)"
index_append(ix, key, idx) ==
    [x \in (DOMAIN ix) \cup {key} |->
        IF x = key THEN Append(IF key \in DOMAIN ix THEN ix[key] ELSE << >>, idx)
        ELSE ix[x]]

\* "index.get(key, [])"
index_get(ix, key) == IF key \in DOMAIN ix THEN ix[key] ELSE << >>

RECURSIVE index_names(_, _, _, _)
\* "for alias in self._alias_names(r): index.setdefault(alias, []).append(idx)"
index_names(ix, names, j, idx) ==
    IF j > Len(names) THEN ix
    ELSE index_names(index_append(ix, names[j], idx), names, j + 1, idx)

RECURSIVE index_regs_plain(_, _, _, _)
\* mutant: a register is listed under its own name only
index_regs_plain(ix, d, j, idx) ==
    IF j > Len(d) THEN ix
    ELSE index_regs_plain(index_append(ix, d[j][1], idx), d, j + 1, idx)

RECURSIVE index_regs(_, _, _, _)
\* _index_event for the reads or the writes d of the event idx:
\* "for r in d.keys(): for alias in self._alias_names(r): ..."
index_regs(ix, d, j, idx) ==
    IF j > Len(d) THEN ix
    ELSE index_regs(index_names(ix, alias_list(d[j][1]), 1, idx), d, j + 1, idx)

is_call_insn(a) == a.mnem \in {"bl", "blx"}

is_return_insn(a) ==
    \/ a.mnem = "bx" /\ Len(a.ops) >= 1 /\ a.ops[1] = "lr"
    \/ a.mnem = "mov" /\ Mentions(a, "pc") /\ Mentions(a, "lr")
    \/ a.mnem = "pop" /\ Mentions(a, "pc")
    \/ a.mnem = "ldr" /\ Len(a.ops) >= 1 /\ a.ops[1] = "pc"
    \/ a.mnem \in {"ldm", "ldmia", "ldmdb"} /\ Mentions(a, "pc")

\* _annotate_call: the event's (call_id, call_depth), then the stack's change
annotate_call(ev, stack) ==
    [ev EXCEPT !.call_depth = Len(stack),
               !.call_id = IF Len(stack) > 0 THEN stack[Len(stack)] ELSE 0]

\* mutant: a return instruction leaves the stack as it is
call_stack_kept(a, stack, nid) ==
    IF is_call_insn(a) THEN Append(stack, nid) ELSE stack

\* the stack after the event: a call pushes the next id, a return pops
call_stack_after(a, stack, nid) ==
    IF is_call_insn(a) THEN Append(stack, nid)
    ELSE IF is_return_insn(a) /\ Len(stack) > 0 THEN SubSeq(stack, 1, Len(stack) - 1)
    ELSE stack

RECURSIVE fill_reads_overwrite(_, _, _)
\* mutant: a read value overwrites the value the map already holds
fill_reads_overwrite(regs, reads, j) ==
    IF j > Len(reads) THEN regs
    ELSE fill_reads_overwrite(MapSet(regs, reads[j][1], reads[j][2]), reads, j + 1)

RECURSIVE fill_reads(_, _, _)
\* "for k, v in ev.reads.items(): regs.setdefault(k, v)"
fill_reads(regs, reads, j) ==
    IF j > Len(reads) THEN regs
    ELSE fill_reads(MapSetDefault(regs, reads[j][1], reads[j][2]), reads, j + 1)

RECURSIVE update_writes(_, _, _)
\* "regs.update(ev.writes)"
update_writes(regs, writes, j) ==
    IF j > Len(writes) THEN regs
    ELSE update_writes(MapSet(regs, writes[j][1], writes[j][2]), writes, j + 1)

\* _apply_writes, and the replay step of reconstruct_regs_at
apply_writes(regs, ev) == update_writes(fill_reads(regs, ev.reads, 1), ev.writes, 1)

\* one well-formed line: _parse_line, _annotate_call, _index_event,
\* _apply_writes and the periodic checkpoint
ParseLine(t) ==
    /\ phase = "parse"
    /\ LET ln == line + 1
           ev == annotate_call([t EXCEPT !.line_no = ln], call_stack)
           regs == apply_writes(current_regs, ev)
       IN  /\ line' = ln
           /\ events' = Append(events, ev)
           /\ call_stack' = call_stack_after(ev.asm, call_stack, next_call_id)
           /\ next_call_id' = IF is_call_insn(ev.asm) THEN next_call_id + 1 ELSE next_call_id
           /\ current_regs' = regs
           /\ reg_checkpoints' =
                IF ln % CheckpointInterval = 0
                THEN [l \in (DOMAIN reg_checkpoints) \cup {ln} |->
                         IF l = ln THEN regs ELSE reg_checkpoints[l]]
                ELSE reg_checkpoints
    /\ UNCHANGED <<phase, regs_cache, recent_access_idx, effaddr_cache,
                   store_addr_index, last, tf>>
    /\ addr_index' = index_append(addr_index, t.pc, Len(events))
    /\ reg_read_index' = index_regs(reg_read_index, t.reads, 1, Len(events))
    /\ reg_write_index' = index_regs(reg_write_index, t.writes, 1, Len(events))
    /\ UNCHANGED <<returned, workers>>

\* mutant: a line that yields no event still takes a call id
SkipLineNumbering ==
    /\ phase = "parse"
    /\ line' = line + 1
    /\ next_call_id' = next_call_id + 1
    /\ UNCHANGED <<events, current_regs, reg_checkpoints, call_stack,
                   phase, regs_cache, recent_access_idx, effaddr_cache,
                   store_addr_index, last, tf>>
    /\ UNCHANGED <<addr_index, reg_read_index, reg_write_index>>
    /\ UNCHANGED <<returned, workers>>

\* a line LINE_RE does not match: "if ev is None: continue"
SkipLine ==
    /\ phase = "parse"
    /\ line' = line + 1
    /\ UNCHANGED <<events, current_regs, reg_checkpoints, call_stack, next_call_id,
                   phase, regs_cache, recent_access_idx, effaddr_cache,
                   store_addr_index, last, tf>>
    /\ UNCHANGED <<addr_index, reg_read_index, reg_write_index>>
    /\ UNCHANGED <<returned, workers>>

(***************************************************************************)
(* Register reconstruction: reconstruct_regs_at.                          *)
(***************************************************************************)
\* mutant: the replay skips the event after the cached one
replay_start_skip(cached_start_idx) == cached_start_idx + 2

\* "start_idx = cached_start_idx + 1": replay resumes after the cached event
replay_start(cached_start_idx) == cached_start_idx + 1

\* the largest checkpoint line <= target_line, 0 when there is none
checkpoint_line_for(target_line) ==
    LET below == {ln \in DOMAIN reg_checkpoints : ln <= target_line}
    IN  IF below = {} THEN 0 ELSE CHOOSE ln \in below : \A o \in below : o <= ln

RECURSIVE checkpoint_start(_, _, _)
\* the binary search for the first event whose line_no >= checkpoint_line
checkpoint_start(lo, hi, checkpoint_line) ==
    IF lo > hi THEN lo
    ELSE LET mid == (lo + hi) \div 2
         IN  IF events[mid + 1].line_no < checkpoint_line
             THEN checkpoint_start(mid + 1, hi, checkpoint_line)
             ELSE checkpoint_start(lo, mid - 1, checkpoint_line)

\* "best_key": the largest cached key <= event_index, -1 when there is none
best_key(cache, event_index) ==
    LET below == {k \in KeySet(cache) : k <= event_index}
    IN  IF below = {} THEN -1 ELSE CHOOSE k \in below : \A o \in below : o <= k

\* the key the mid-point snapshot is stored under
midpoint_key(idx) == idx

RECURSIVE replay(_, _, _, _, _, _)
\* the replay loop "for idx in range(start_idx, event_index + 1)" with its
\* mid-point snapshot; yields the final map and the cache
replay(idx, event_index, start_idx, regs, cache, midpoint_cached) ==
    IF idx > event_index THEN [regs |-> regs, cache |-> cache]
    ELSE LET replay_distance == event_index - start_idx + 1
             r2 == apply_writes(regs, events[idx + 1])
             snap == /\ replay_distance > MidpointDist
                     /\ ~midpoint_cached
                     /\ idx >= start_idx + (replay_distance \div 2)
         IN  replay(idx + 1, event_index, start_idx, r2,
                    IF snap THEN ODictSet(cache, midpoint_key(idx), r2) ELSE cache,
                    midpoint_cached \/ snap)

\* the loop entered at start_idx
replay_from(start_idx, event_index, regs0, cache) ==
    replay(start_idx, event_index, start_idx, regs0, cache, FALSE)

\* "self._recent_access_idx = event_index; self._regs_cache[event_index] = regs"
\* and the trim to the capacity
reconstruct_store(done, event_index) ==
    [ret |-> done.regs,
     cache |-> ODictSetTrim(done.cache, event_index, done.regs, RegsCacheCap),
     recent |-> event_index]

\* reconstruct_regs_at(event_index) on the cache state (cache, recent):
\* the map returned and the cache state it leaves
reconstruct_regs_at(cache, recent, event_index0) ==
    IF Len(events) = 0
    THEN [ret |-> EmptyMap, cache |-> cache, recent |-> recent]
    ELSE
    LET event_index == Max(0, Min(event_index0, Len(events) - 1))
    IN  IF Has(cache, event_index)
        THEN [ret |-> Get(cache, event_index),
              cache |-> ODictMoveToEnd(cache, event_index),
              recent |-> event_index]
        ELSE
        LET is_sequential == /\ recent >= 0
                             /\ 0 < Abs(event_index - recent)
                             /\ Abs(event_index - recent) < SeqWindow
            seq_start == is_sequential /\ Has(cache, recent) /\ recent <= event_index
            bk == best_key(cache, event_index)
            cached_start_idx == IF seq_start THEN recent ELSE bk
            from_cache == seq_start \/ bk >= 0
            checkpoint_line == checkpoint_line_for(events[event_index + 1].line_no)
            regs0 == IF from_cache THEN Get(cache, cached_start_idx)
                     ELSE IF checkpoint_line \in DOMAIN reg_checkpoints
                          THEN reg_checkpoints[checkpoint_line]
                          ELSE EmptyMap
            start_idx == IF from_cache THEN replay_start(cached_start_idx)
                         ELSE IF checkpoint_line # 0
                              THEN checkpoint_start(0, Len(events) - 1, checkpoint_line)
                              ELSE 0
        IN  reconstruct_store(replay_from(start_idx, event_index, regs0, cache),
                              event_index)

(***************************************************************************)
(* Effective addresses: effective_address and _precompute_memory_effects. *)
(***************************************************************************)
RECURSIVE Pow2(_)
Pow2(n) == IF n = 0 THEN 1 ELSE 2 * Pow2(n - 1)

\* "pre_index = '!' in asm[lb:rb+1]": the slice ends at the ']' and the '!' of a
\* pre-indexed form follows the ']', so the slice never holds it
pre_index(a) == FALSE

\* the event whose reconstructed map the resolver reads:
\* "regs = self.reconstruct_regs_at(event_index)"
effaddr_regs_index(event_index) == event_index

\* "shift": from "lsl #n", or from "uxtw|sxtw|sxtx #n"
addr_shift(m) ==
    IF m.mod \in {"lsl", "uxtw", "sxtw", "sxtx"} /\ m.shift # None THEN m.shift[1] ELSE 0

\* "addr = (b + ((i or 0) << (shift or 0)) + (imm if pre_index else 0)) & 0xFFFFFFFF"
addr_of(a, regs) ==
    LET m == a.mem
        b == regs[m.base]
        i == IF m.index # "" /\ m.index \in DOMAIN regs THEN regs[m.index] ELSE 0
        imm == IF m.imm # None THEN m.imm[1] ELSE 0
    IN  (b + i * Pow2(addr_shift(m)) + (IF pre_index(a) THEN imm ELSE 0)) % AddrMod

\* the address from the reconstructed map r.ret ("if b is None: return None"),
\* stored in the address cache, which is trimmed to its capacity
effaddr_resolve(r, st, a, event_index) ==
    IF a.mem.base \notin DOMAIN r.ret
    THEN [ret |-> None, st |-> [st EXCEPT !.rc = r.cache, !.recent = r.recent]]
    ELSE [ret |-> Some(addr_of(a, r.ret)),
          st |-> [rc |-> r.cache, recent |-> r.recent,
                  ec |-> ODictSetTrim(st.ec, event_index, Some(addr_of(a, r.ret)),
                                      EffaddrCacheCap)]]

\* mutant: a call answers from the newest entry of the address cache, whatever
\* event that entry is for
effective_address_unkeyed(st, evs, event_index) ==
    IF event_index < 0 \/ event_index >= Len(evs) THEN [ret |-> None, st |-> st]
    ELSE IF Len(st.ec) > 0 /\ st.ec[Len(st.ec)][2] # None
    THEN [ret |-> st.ec[Len(st.ec)][2], st |-> st]
    ELSE IF ~(StartsStr(evs[event_index + 1].asm) \/ StartsLdr(evs[event_index + 1].asm))
    THEN [ret |-> None, st |-> st]
    ELSE IF evs[event_index + 1].effaddr # None
    THEN [ret |-> evs[event_index + 1].effaddr,
          st |-> [st EXCEPT !.ec = ODictSet(st.ec, event_index,
                                            evs[event_index + 1].effaddr)]]
    ELSE IF ~evs[event_index + 1].asm.mem.has
    THEN [ret |-> None, st |-> st]
    ELSE
    effaddr_resolve(
        reconstruct_regs_at(st.rc, st.recent, effaddr_regs_index(event_index)),
        st, evs[event_index + 1].asm, event_index)

\* effective_address(event_index) on the cache state st = [rc, recent, ec], over
\* the event list evs: the value returned and the cache state it leaves
effective_address(st, evs, event_index) ==
    IF event_index < 0 \/ event_index >= Len(evs) THEN [ret |-> None, st |-> st]
    ELSE
    LET ev == evs[event_index + 1]
    IN  IF Has(st.ec, event_index) /\ Get(st.ec, event_index) # None
        THEN [ret |-> Get(st.ec, event_index),
              st |-> [st EXCEPT !.ec = ODictMoveToEnd(st.ec, event_index)]]
        ELSE IF ~(StartsStr(ev.asm) \/ StartsLdr(ev.asm))
        THEN [ret |-> None, st |-> st]
        ELSE IF ev.effaddr # None
        THEN [ret |-> ev.effaddr,
              st |-> [st EXCEPT !.ec = ODictSet(st.ec, event_index, ev.effaddr)]]
        ELSE IF ~ev.asm.mem.has
        THEN [ret |-> None, st |-> st]
        ELSE
        effaddr_resolve(
            reconstruct_regs_at(st.rc, st.recent, effaddr_regs_index(event_index)),
            st, ev.asm, event_index)

XNames == {RName["x"][j] : j \in 1..Len(RName["x"])} \cup {"xzr"}

\* the width _precompute_memory_effects stores in ev.mem_width
precomputed_width(a) ==
    IF a.mnem \in {"ldrb", "strb"} THEN 1
    ELSE IF a.mnem \in {"ldrh", "strh"} THEN 2
    ELSE IF Len(a.ops) >= 1 /\ a.ops[1] \in XNames THEN 8
    ELSE 4

\* mutant: the store is listed under its first byte only
index_store_first(sai, base, span, off, idx) ==
    [x \in (DOMAIN sai) \cup {base % AddrMod} |->
        IF x = base % AddrMod
        THEN Append(IF x \in DOMAIN sai THEN sai[x] ELSE << >>, idx)
        ELSE sai[x]]

RECURSIVE index_store(_, _, _, _, _)
\* "for off in range(span): store_addr_index.setdefault(a2, []).append(idx)"
index_store(sai, base, span, off, idx) ==
    IF off >= span THEN sai
    ELSE LET a2 == (base + off) % AddrMod
             old == IF a2 \in DOMAIN sai THEN sai[a2] ELSE << >>
         IN  index_store([x \in (DOMAIN sai) \cup {a2} |->
                             IF x = a2 THEN Append(old, idx) ELSE sai[x]],
                         base, span, off + 1, idx)

RECURSIVE precompute_memory_effects(_, _, _, _)
RECURSIVE precompute_event(_, _, _, _)
\* the loop body for a load or store at idx, e the result of its
\* effective_address call
precompute_event(e, idx, evs, sai) ==
    precompute_memory_effects(idx + 1, e.st,
        [evs EXCEPT ![idx + 1] =
            [@ EXCEPT !.effaddr = e.ret,
                      !.mem_op = IF StartsLdr(evs[idx + 1].asm) THEN "ldr" ELSE "str",
                      !.mem_width = precomputed_width(evs[idx + 1].asm)]],
        IF e.ret # None /\ StartsStr(evs[idx + 1].asm)
        THEN index_store(sai, e.ret[1] % AddrMod,
                         Max(1, precomputed_width(evs[idx + 1].asm)), 0, idx)
        ELSE sai)

\* _precompute_memory_effects: the loop over the events from idx on; yields the
\* events with effaddr / mem_op / mem_width filled in, the store index and the
\* cache state the effective_address calls leave behind
precompute_memory_effects(idx, st, evs, sai) ==
    IF idx >= Len(evs) THEN [st |-> st, evs |-> evs, sai |-> sai]
    ELSE
    LET ev == evs[idx + 1]
    IN  IF ~(StartsLdr(ev.asm) \/ StartsStr(ev.asm))
        THEN precompute_memory_effects(idx + 1, st, evs, sai)
        ELSE precompute_event(effective_address(st, evs, idx), idx, evs, sai)

\* the parser's fields after _precompute_memory_effects yielded p
Precomputed(p) ==
    /\ events' = p.evs
    /\ store_addr_index' = p.sai
    /\ regs_cache' = p.st.rc
    /\ recent_access_idx' = p.st.recent
    /\ effaddr_cache' = p.st.ec

\* the end of the input: parse_file's call of _precompute_memory_effects, after
\* which the parser answers queries
FinishParse ==
    /\ phase = "parse"
    /\ Precomputed(precompute_memory_effects(0,
            [rc |-> regs_cache, recent |-> recent_access_idx, ec |-> effaddr_cache],
            events, EmptyMap))
    /\ phase' = "query"
    /\ UNCHANGED <<addr_index, reg_read_index, reg_write_index>>
    /\ UNCHANGED <<current_regs, reg_checkpoints, call_stack, next_call_id, line, last, tf>>
    /\ UNCHANGED <<returned, workers>>

(***************************************************************************)
(* The state after TraceParser.__init__, and the query calls.             *)
(***************************************************************************)
NoCall == [op |-> "none", arg |-> 0, regs |-> EmptyMap, addr |-> None]

NoTaint == [op |-> "none"]

Init ==
    /\ events = << >>
    /\ current_regs = EmptyMap
    /\ reg_checkpoints = EmptyMap
    /\ call_stack = << >>
    /\ next_call_id = 1
    /\ line = 0
    /\ phase = "parse"
    /\ regs_cache = << >>
    /\ recent_access_idx = -1
    /\ effaddr_cache = << >>
    /\ store_addr_index = EmptyMap
    /\ addr_index = EmptyMap
    /\ reg_read_index = EmptyMap
    /\ reg_write_index = EmptyMap
    /\ last = NoCall
    /\ tf = NoTaint
    /\ returned = << >>
    /\ workers = << >>

\* the parser after reconstruct_regs_at(i) returned r
Reconstructed(r, i) ==
    /\ regs_cache' = r.cache
    /\ recent_access_idx' = r.recent
    /\ last' = [op |-> "regs", arg |-> i, regs |-> r.ret, addr |-> None]

\* the parser after effective_address(i) returned e
Resolved(e, i) ==
    /\ regs_cache' = e.st.rc
    /\ recent_access_idx' = e.st.recent
    /\ effaddr_cache' = e.st.ec
    /\ last' = [op |-> "effaddr", arg |-> i, regs |-> EmptyMap, addr |-> e.ret]

\* a call reconstruct_regs_at(i), for any integer near the event range
\* mutant: the replay fills the map of the checkpoint itself
checkpoints_shared(cp, checkpoint_line, regs) ==
    IF checkpoint_line \in DOMAIN cp
    THEN [cp EXCEPT ![checkpoint_line] = regs]
    ELSE cp

\* "regs = dict(self._reg_checkpoints.get(checkpoint_line, {}))": the replay
\* fills a copy, the checkpoints stay as parsing left them
checkpoints_copied(cp, checkpoint_line, regs) == cp

\* the checkpoint line a call for index i looks up
LookedUp(i) ==
    IF Len(events) = 0 THEN 0
    ELSE checkpoint_line_for(events[Max(0, Min(i, Len(events) - 1)) + 1].line_no)

ReconstructRegs ==
    /\ phase = "query"
    /\ \E i \in -1..Len(events) :
          /\ Reconstructed(reconstruct_regs_at(regs_cache, recent_access_idx, i), i)
          /\ reg_checkpoints' = checkpoints_copied(reg_checkpoints, LookedUp(i),
                                                   last'.regs)
    /\ UNCHANGED <<events, current_regs, call_stack, next_call_id,
                   line, phase, effaddr_cache, store_addr_index, tf>>
    /\ UNCHANGED <<addr_index, reg_read_index, reg_write_index>>
    /\ UNCHANGED <<returned, workers>>

\* a call effective_address(i)
EffectiveAddress ==
    /\ phase = "query"
    /\ \E i \in -1..Len(events) :
          Resolved(effective_address(
                       [rc |-> regs_cache, recent |-> recent_access_idx,
                        ec |-> effaddr_cache], events, i), i)
    /\ UNCHANGED <<events, current_regs, reg_checkpoints, call_stack, next_call_id,
                   line, phase, store_addr_index, tf>>
    /\ UNCHANGED <<addr_index, reg_read_index, reg_write_index>>
    /\ UNCHANGED <<returned, workers>>

(***************************************************************************)
(* The instruction classifier: predicates on an event or its text.        *)
(***************************************************************************)
\* the operand texts that start with '#'
Immediates == {"#0", "#1", "#4", "#0x14", "#0x100", "#0x1234", "#0xfffe", "#0x1000"}

\* the immediates _is_zero_imm accepts
ZeroImmediates == {"#0"}

\* the names "[rxw][0-9]{1,2}"
NumberedRegs == UNION {{RName[p][j] : j \in 1..Len(RName[p])} : p \in {"r", "x", "w"}}

\* the names "[xw]\d+"
XWRegs == UNION {{RName[p][j] : j \in 1..Len(RName[p])} : p \in {"x", "w"}}

\* "'#' in s"
HasHash(a) ==
    \/ \E j \in 1..Len(a.ops) : a.ops[j] \in Immediates
    \/ a.mem.has /\ (a.mem.imm # None \/ a.mem.shift # None \/ a.mem.postimm # None)

\* "reg in tainted_regs or any(a in tainted_regs for a in self._alias_names(reg))"
AnyTainted(reg, tainted_regs) == alias_names(reg) \cap tainted_regs # {}

\* _has_write
has_write(ev, reg) == \E a \in alias_names(reg) : Has(ev.writes, a)

\* _is_immediate_write
is_immediate_write(ev, reg) ==
    /\ Has(ev.writes, reg)
    /\ HasHash(ev.asm)
    /\ ev.asm.mnem \in {"mov", "mvn", "orr", "eor", "and", "add", "sub",
                        "movw", "movt", "movz", "movn"}

\* _is_constant_zero_write: the patterns "op rd, rn" (m2) and "op rd, rn, rm" (m3,
\* whose last group takes the rest of the text, so that it is one operand only
\* when the text has three)
is_constant_zero_write(ev, reg) ==
    LET a == ev.asm
        m2 == Len(a.ops) = 2 /\ ~a.mem.has /\ a.rlist = << >>
        m3 == Len(a.ops) = 3 /\ ~a.mem.has /\ a.rlist = << >>
    IN  /\ Has(ev.writes, reg)
        /\ \/ m2 /\ a.mnem = "mov" /\ a.ops[1] = reg /\ a.ops[2] \in {"xzr", "wzr"}
           \/ m3 /\ a.mnem = "and" /\ a.ops[1] = reg /\ a.ops[3] \in ZeroImmediates
           \/ m3 /\ a.mnem \in {"mul", "mla", "mls"} /\ a.ops[1] = reg
                 /\ a.ops[3] \in ZeroImmediates \cup {"xzr", "wzr"}
           \/ m3 /\ a.ops[1] = reg /\ a.ops[3] = a.ops[2]
                 /\ a.mnem \in {"eor", "sub", "rsb", "bic"}

\* _get_mem_access_width: by the last letter of the mnemonic
get_mem_access_width(a) ==
    IF a.mnem \in {"ldrb", "strb", "ldrsb"} THEN 1
    ELSE IF a.mnem \in {"ldrh", "strh"} THEN 2
    ELSE IF a.mnem \in {"ldrd", "strd"} THEN 8
    ELSE 4

\* the bytes base .. base + width - 1, each reduced to the address width
ByteRange(base_addr, width) ==
    {((base_addr % AddrMod) + offset) % AddrMod : offset \in 0..(width - 1)}

\* _mark_memory_tainted
mark_memory_tainted(tainted_mem, base_addr, width) ==
    tainted_mem \cup ByteRange(base_addr, width)

\* _check_memory_tainted
check_memory_tainted(tainted_mem, base_addr, width) ==
    ByteRange(base_addr, width) \cap tainted_mem # {}

\* _is_partial_bitfield_clear
is_partial_bitfield_clear(ev, reg) == Has(ev.writes, reg) /\ ev.asm.mnem = "bfc"

\* the names a register list may hold outside a range
ListNames ==
    {RName["r"][j] : j \in 1..Len(RName["r"])} \cup {"sp", "lr", "pc", "cpsr"} \cup XWRegs

RECURSIVE parse_register_list(_, _)
\* _parse_register_list: the items of "{...}" from the j-th on, ranges expanded
parse_register_list(rlist, j) ==
    IF j > Len(rlist) THEN << >>
    ELSE (IF Len(rlist[j]) = 3
          THEN [k \in 1..Max(0, rlist[j][3] - rlist[j][2] + 1) |->
                   RName[rlist[j][1]][rlist[j][2] + k]]
          ELSE IF rlist[j][1] \in ListNames THEN <<rlist[j][1]>> ELSE << >>)
         \o parse_register_list(rlist, j + 1)

\* _parse_dual_regs: "(strd|ldrd) r1, r2, [" gives (r1, r2), anything else nothing
parse_dual_regs(a) ==
    IF /\ a.mnem \in {"strd", "ldrd"}
       /\ Len(a.ops) = 2 /\ a.mem.has
       /\ a.ops[1] \in NumberedRegs /\ a.ops[2] \in NumberedRegs
    THEN <<a.ops[1], a.ops[2]>>
    ELSE << >>

\* _parse_store_value_reg: "str* rt, [" gives rt, anything else nothing
parse_store_value_reg(a) ==
    IF StartsStr(a) /\ Len(a.ops) = 1 /\ a.mem.has /\ a.ops[1] \in NumberedRegs
    THEN Some(a.ops[1])
    ELSE None

\* _is_conditional_select_op
is_conditional_select_op(a) == a.mnem \in {"csel", "csinc", "csinv", "csneg"}

\* _is_conditional_set_op
is_conditional_set_op(a) == a.mnem \in {"cset", "csetm"}

\* _parse_csel_operands: "cs.. xd, xn, xm," gives (xd, xn, xm), anything else nothing
parse_csel_operands(a) ==
    IF Len(a.ops) >= 4 /\ \A j \in 1..3 : a.ops[j] \in XWRegs
    THEN SubSeq(a.ops, 1, 3)
    ELSE << >>

\* _is_movk_op
is_movk_op(a) == a.mnem = "movk"

\* _is_madd_op
is_madd_op(a) == a.mnem \in {"madd", "msub", "smaddl", "umaddl", "smsubl", "umsubl"}

\* _parse_madd_operands: "xd, xn, xm, xa" gives the four names, anything else nothing
parse_madd_operands(a) ==
    IF Len(a.ops) >= 4 /\ \A j \in 1..4 : a.ops[j] \in XWRegs
    THEN SubSeq(a.ops, 1, 4)
    ELSE << >>

\* _is_adrp_op
is_adrp_op(a) == a.mnem = "adrp"

\* "'pc' in s"
MentionsPc(a) == Mentions(a, "pc")

\* the end of _is_load_from_const_memory, addr being the address of the load:
\* no store to addr is indexed, or none before event_index
no_store_before(addr, event_index) ==
    /\ addr # None
    /\ \/ addr[1] \notin DOMAIN store_addr_index
       \/ \A j \in 1..Len(store_addr_index[addr[1]]) :
             store_addr_index[addr[1]][j] >= event_index

(***************************************************************************)
(* The forward taint engine: taint_forward.                               *)
(*                                                                         *)
(* An event is processed on a record S = [tr, tm, used, st, eff]: the     *)
(* tainted registers and bytes, the "used" flag, the cache state of the   *)
(* parser (see effective_address) and the local "eff".                    *)
(***************************************************************************)
\* the parser's caches as effective_address takes them
Caches == [rc |-> regs_cache, recent |-> recent_access_idx, ec |-> effaddr_cache]

\* S after a call of effective_address answered e
Called(S, e) == [S EXCEPT !.st = e.st]

\* the read hit: "for r in ev.reads.keys(): if r in tainted_regs ..."
reads_tainted(ev, tainted_regs) ==
    \E j \in 1..Len(ev.reads) : AnyTainted(ev.reads[j][1], tainted_regs)

forward_read_hit(S, ev) == [S EXCEPT !.used = reads_tainted(ev, S.tr)]

\* the load hit, e being the answer of "eff = self.effective_address(i)"
forward_load_check(S, e, ev) ==
    [S EXCEPT !.st = e.st,
              !.eff = e.ret,
              !.used = @ \/ (e.ret # None
                             /\ check_memory_tainted(S.tm, e.ret[1],
                                                     get_mem_access_width(ev.asm)))]

forward_load_hit(S, ev, i) ==
    IF StartsLdr(ev.asm)
    THEN forward_load_check(S, effective_address(S.st, events, i), ev)
    ELSE S

\* mutant: the written register is tainted without its counterpart
taint_rd_only(S, rd) == [S EXCEPT !.tr = @ \cup {rd}, !.used = TRUE]

\* "for a in self._alias_names(rd): tainted_regs.add(a)"; "used = True"
taint_rd(S, rd) == [S EXCEPT !.tr = @ \cup alias_names(rd), !.used = TRUE]

\* mutant: the sanitizing rule marks the event and leaves the taint
clean_rd_keep(S, rd) == [S EXCEPT !.used = TRUE]

\* "for a in self._alias_names(rd): tainted_regs.discard(a); used = True"
clean_rd(S, rd) == [S EXCEPT !.tr = @ \ alias_names(rd), !.used = TRUE]

\* mutant: the partial write removes the taint
keep_rd_clean(S, rd) == [S EXCEPT !.tr = @ \ alias_names(rd), !.used = TRUE]

\* "if any(a in tainted_regs for a in self._alias_names(rd)): used = True"
keep_rd(S, rd) == [S EXCEPT !.used = @ \/ AnyTainted(rd, S.tr)]

\* rules 6 to 9 of the cascade: bfc, cset / csetm, adrp, movk
cascade_tail(S, ev, rd) ==
    IF is_partial_bitfield_clear(ev, rd) THEN keep_rd(S, rd)
    ELSE IF is_conditional_set_op(ev.asm) THEN clean_rd(S, rd)
    ELSE IF is_adrp_op(ev.asm) THEN clean_rd(S, rd)
    ELSE IF is_movk_op(ev.asm) THEN keep_rd(S, rd)
    ELSE S

\* rule 5 past the 'pc' test: _is_load_from_const_memory, e being the answer of
\* its effective_address call
const_memory_rule(S, e, ev, i, rd) ==
    IF no_store_before(e.ret, i)
    THEN clean_rd(Called(S, e), rd)
    ELSE cascade_tail(Called(S, e), ev, rd)

\* the cascade for a written register that received no taint: rules 4 and 5,
\* then the rest
sanitize(S, ev, i, rd) ==
    IF is_immediate_write(ev, rd) THEN clean_rd(S, rd)
    ELSE IF StartsLdr(ev.asm) /\ has_write(ev, rd)
    THEN IF MentionsPc(ev.asm) THEN clean_rd(S, rd)
         ELSE const_memory_rule(S, effective_address(S.st, events, i), ev, i, rd)
    ELSE cascade_tail(S, ev, rd)

\* "2) ldr from tainted memory", e being the local eff or, when that is None,
\* the answer of a further effective_address call
forward_write_load(S, e, ev, i, rd) ==
    IF e.ret # None
       /\ check_memory_tainted(S.tm, e.ret[1], get_mem_access_width(ev.asm))
    THEN taint_rd([S EXCEPT !.st = e.st, !.eff = e.ret], rd)
    ELSE sanitize([S EXCEPT !.st = e.st, !.eff = e.ret], ev, i, rd)

\* the body of "for rd in list(ev.writes.keys())"
forward_write(S, ev, i, rd) ==
    IF is_constant_zero_write(ev, rd) THEN clean_rd(S, rd)
    ELSE IF reads_tainted(ev, S.tr) THEN taint_rd(S, rd)
    ELSE IF StartsLdr(ev.asm)
    THEN forward_write_load(S,
                            IF S.eff = None THEN effective_address(S.st, events, i)
                            ELSE [ret |-> S.eff, st |-> S.st],
                            ev, i, rd)
    ELSE sanitize(S, ev, i, rd)

RECURSIVE forward_writes(_, _, _, _)
\* the loop over the written registers, from the j-th on
forward_writes(S, ev, i, j) ==
    IF j > Len(ev.writes) THEN S
    ELSE forward_writes(forward_write(S, ev, i, ev.writes[j][1]), ev, i, j + 1)

\* mutant: a store with a resolved address marks the event whatever it stores
forward_store_mark_any(S, e, ev) ==
    IF e.ret # None THEN [S EXCEPT !.st = e.st, !.used = TRUE] ELSE Called(S, e)

\* the store rule, e being the answer of "eff2 = self.effective_address(i)"
forward_store_mark(S, e, ev) ==
    IF /\ e.ret # None
       /\ parse_store_value_reg(ev.asm) # None
       /\ AnyTainted(parse_store_value_reg(ev.asm)[1], S.tr)
    THEN [S EXCEPT !.st = e.st,
                   !.tm = mark_memory_tainted(@, e.ret[1], get_mem_access_width(ev.asm)),
                   !.used = TRUE]
    ELSE Called(S, e)

forward_store(S, ev, i) ==
    IF StartsStr(ev.asm)
    THEN forward_store_mark(S, effective_address(S.st, events, i), ev)
    ELSE S

\* the registers of a list, as a set
ListRegs(a) ==
    {parse_register_list(a.rlist, 1)[k] : k \in 1..Len(parse_register_list(a.rlist, 1))}

\* mutant: a load of several registers taints the first listed one only
taint_list_first(S, regs) ==
    IF regs = << >> THEN S
    ELSE [S EXCEPT !.tr = @ \cup alias_names(regs[1]), !.used = TRUE]

\* "for reg in reg_list: for a in self._alias_names(reg): tainted_regs.add(a);
\* used = True"
taint_list(S, regs) ==
    IF regs = << >> THEN S
    ELSE [S EXCEPT !.tr = @ \cup UNION {alias_names(regs[k]) : k \in 1..Len(regs)},
                   !.used = TRUE]

\* strd with a tainted source, e being the answer of "eff3"
forward_strd_mark(S, e) ==
    [S EXCEPT !.st = e.st,
              !.tm = IF e.ret # None THEN mark_memory_tainted(@, e.ret[1], 8) ELSE @,
              !.used = TRUE]

\* ldrd, e being the answer of "eff4"
forward_ldrd_check(S, e, regs) ==
    IF e.ret # None /\ check_memory_tainted(S.tm, e.ret[1], 8)
    THEN taint_list(Called(S, e), regs)
    ELSE Called(S, e)

\* the chain push / pop / stm / ldm / strd / ldrd
forward_multi(S, ev, i) ==
    LET a == ev.asm
    IN  IF a.mnem = "push"
        THEN [S EXCEPT !.used = @ \/ \E r \in ListRegs(a) : AnyTainted(r, S.tr)]
        ELSE IF a.mnem = "pop"
        THEN IF S.tm # {} THEN taint_list(S, parse_register_list(a.rlist, 1)) ELSE S
        ELSE IF a.mnem \in {"stm", "stmia", "stmdb"}
        THEN [S EXCEPT !.used = @ \/ \E r \in ListRegs(a) : AnyTainted(r, S.tr)]
        ELSE IF a.mnem \in {"ldm", "ldmia", "ldmdb"}
        THEN IF S.tm # {} THEN taint_list(S, parse_register_list(a.rlist, 1)) ELSE S
        ELSE IF a.mnem = "strd"
        THEN IF parse_dual_regs(a) # << >>
                /\ \E k \in 1..2 : AnyTainted(parse_dual_regs(a)[k], S.tr)
             THEN forward_strd_mark(S, effective_address(S.st, events, i))
             ELSE S
        ELSE IF a.mnem = "ldrd"
        THEN IF parse_dual_regs(a) # << >>
             THEN forward_ldrd_check(S, effective_address(S.st, events, i),
                                     parse_dual_regs(a))
             ELSE S
        ELSE S

\* the csel and madd rules: "if tainted: taint rd; used = True"
forward_arm64(S, ev) ==
    LET a == ev.asm
    IN  IF is_conditional_select_op(a)
        THEN IF parse_csel_operands(a) # << >>
                /\ \E k \in 2..3 : AnyTainted(parse_csel_operands(a)[k], S.tr)
             THEN taint_rd(S, parse_csel_operands(a)[1])
             ELSE S
        ELSE IF is_madd_op(a)
        THEN IF parse_madd_operands(a) # << >>
                /\ \E k \in 2..4 : AnyTainted(parse_madd_operands(a)[k], S.tr)
             THEN taint_rd(S, parse_madd_operands(a)[1])
             ELSE S
        ELSE S

\* one iteration of taint_forward's loop on event i, past the call filter
forward_event(S, ev, i) ==
    forward_arm64(
        forward_multi(
            forward_store(
                forward_writes(
                    forward_load_hit(forward_read_hit(S, ev), ev, i),
                    ev, i, 1),
                ev, i),
            ev, i),
        ev)

RECURSIVE dedupe(_, _, _)
\* "seen = set(); ordered = []; for k in hits: ...": the first occurrences, in order
dedupe(hits, j, ordered) ==
    IF j > Len(hits) THEN ordered
    ELSE dedupe(hits, j + 1,
                IF \E k \in 1..Len(ordered) : ordered[k] = hits[j] THEN ordered
                ELSE Append(ordered, hits[j]))

\* the locals of a taint_forward / taint_backward call in its loop at index i
TaintRun(op, i0, i, tainted_regs, tainted_mem, base_call, same_call_only, max_steps) ==
    [op |-> op, pc |-> "loop", i0 |-> i0, i |-> i,
     source_regs |-> tainted_regs, source_mem |-> tainted_mem,
     tainted_regs |-> tainted_regs, tainted_mem |-> tainted_mem,
     terminated_regs |-> {}, hits |-> << >>, steps |-> 0,
     base_call |-> base_call, same_call_only |-> same_call_only,
     max_steps |-> max_steps, result |-> << >>]

\* the call returned at once: "if n == 0: return []"
TaintEmpty(op, same_call_only, max_steps) ==
    [TaintRun(op, 0, 0, {}, {}, 0, same_call_only, max_steps) EXCEPT !.pc = "done"]

\* mutant: the filter is not applied
call_filtered_never(ev, base_call, same_call_only) == FALSE

\* "if same_call_only and ev.call_id != base_call: continue"
call_filtered(ev, base_call, same_call_only) ==
    same_call_only /\ ev.call_id # base_call

\* taint_forward(start_idx, source_regs, source_mem_addrs, same_call_only,
\* max_steps) is called: the statements before the loop
TaintForward(start_idx, source_regs, source_mem_addrs, same_call_only, max_steps) ==
    /\ phase = "query"
    /\ tf.op = "none"
    /\ tf' = IF Len(events) = 0
             THEN TaintEmpty("forward", same_call_only, max_steps)
             ELSE LET i0 == Max(0, Min(start_idx, Len(events) - 1))
                  IN  TaintRun("forward", i0, i0,
                               UNION {alias_names(r) : r \in source_regs},
                               {a % AddrMod : a \in source_mem_addrs},
                               events[i0 + 1].call_id, same_call_only, max_steps)
    /\ last' = [op |-> "fstart", arg |-> start_idx, before |-> tf]
    /\ UNCHANGED <<events, current_regs, reg_checkpoints, call_stack, next_call_id,
                   line, phase, regs_cache, recent_access_idx, effaddr_cache,
                   store_addr_index>>
    /\ UNCHANGED <<addr_index, reg_read_index, reg_write_index>>
    /\ returned' = IF Len(events) = 0
                   THEN Append(returned, TaintEmpty("forward", same_call_only, max_steps))
                   ELSE returned
    /\ UNCHANGED workers

\* the parser and the run after the loop body yielded S for event tf.i
ForwardStepped(S) ==
    /\ tf' = [tf EXCEPT !.i = @ + 1,
                        !.steps = @ + 1,
                        !.tainted_regs = S.tr,
                        !.tainted_mem = S.tm,
                        !.hits = IF S.used THEN Append(@, tf.i) ELSE @]
    /\ regs_cache' = S.st.rc
    /\ recent_access_idx' = S.st.recent
    /\ effaddr_cache' = S.st.ec
    /\ last' = [op |-> "fstep", arg |-> tf.i, before |-> tf]

\* one iteration of the loop that processes its event
ForwardEvent ==
    /\ tf.op = "forward" /\ tf.pc = "loop"
    /\ tf.i < Len(events)
    /\ tf.steps < tf.max_steps
    /\ ~call_filtered(events[tf.i + 1], tf.base_call, tf.same_call_only)
    /\ ForwardStepped(forward_event(
            [tr |-> tf.tainted_regs, tm |-> tf.tainted_mem, used |-> FALSE,
             st |-> Caches, eff |-> None],
            events[tf.i + 1], tf.i))
    /\ UNCHANGED <<events, current_regs, reg_checkpoints, call_stack, next_call_id,
                   line, phase, store_addr_index>>
    /\ UNCHANGED <<addr_index, reg_read_index, reg_write_index>>
    /\ UNCHANGED <<returned, workers>>

\* one iteration the call filter ends: "continue"
ForwardSkip ==
    /\ tf.op = "forward" /\ tf.pc = "loop"
    /\ tf.i < Len(events)
    /\ tf.steps < tf.max_steps
    /\ call_filtered(events[tf.i + 1], tf.base_call, tf.same_call_only)
    /\ tf' = [tf EXCEPT !.i = @ + 1]
    /\ last' = [op |-> "fskip", arg |-> tf.i, before |-> tf]
    /\ UNCHANGED <<events, current_regs, reg_checkpoints, call_stack, next_call_id,
                   line, phase, regs_cache, recent_access_idx, effaddr_cache,
                   store_addr_index>>
    /\ UNCHANGED <<addr_index, reg_read_index, reg_write_index>>
    /\ UNCHANGED <<returned, workers>>

\* the loop ends (the range is exhausted, or "if steps >= max_steps: break") and
\* the call returns the hits without duplicates
ForwardReturn ==
    /\ tf.op = "forward" /\ tf.pc = "loop"
    /\ tf.i >= Len(events) \/ tf.steps >= tf.max_steps
    /\ tf' = [tf EXCEPT !.pc = "done", !.result = dedupe(tf.hits, 1, << >>)]
    /\ last' = [op |-> "freturn", arg |-> tf.i, before |-> tf]
    /\ UNCHANGED <<events, current_regs, reg_checkpoints, call_stack, next_call_id,
                   line, phase, regs_cache, recent_access_idx, effaddr_cache,
                   store_addr_index>>
    /\ UNCHANGED <<addr_index, reg_read_index, reg_write_index>>
    /\ returned' = Append(returned, tf')
    /\ UNCHANGED workers

(***************************************************************************)
(* The backward taint engine: taint_backward.                             *)
(*                                                                         *)
(* An event is processed on a record S = [tr, tm, term, used, st]: the    *)
(* tainted registers and bytes, the terminated registers, the "used"      *)
(* flag and the cache state of the parser.                                *)
(***************************************************************************)
\* the registers the parameter rule applies to
ParamRegs ==
    {RName["r"][j] : j \in 1..4}
    \cup {RName["x"][j] : j \in 1..8} \cup {RName["w"][j] : j \in 1..8}

\* rules 3 to 6 of _check_backward_termination: the tag, "" for None
termination_tail(ev, idx, reg) ==
    IF Has(ev.writes, reg) /\ is_constant_zero_write(ev, reg) THEN "immediate-zero"
    ELSE IF /\ reg \in ParamRegs
            /\ idx > ParamWindow
            /\ \A j \in (Max(0, idx - ParamWindow) + 1)..(idx - 1) :
                  ~Has(events[j + 1].writes, reg)
    THEN "parameter"
    ELSE IF reg \in {"r0", "x0", "w0"} /\ idx > 0 /\ events[idx].asm.mnem = "svc"
    THEN "syscall"
    ELSE IF /\ StartsLdr(ev.asm) /\ Has(ev.writes, reg)
            /\ ev.asm.mem.has /\ ev.asm.mem.base = "sp"
    THEN "stack-var"
    ELSE ""

\* rule 2 past the 'pc' test, e being the answer of the effective_address call
\* of _is_load_from_const_memory
termination_load(e, ev, idx, reg) ==
    [tag |-> IF no_store_before(e.ret, idx) THEN "const-pool"
             ELSE termination_tail(ev, idx, reg),
     st |-> e.st]

\* _check_backward_termination(idx, reg) on the cache state st: the tag and the
\* cache state left
check_backward_termination(st, ev, idx, reg) ==
    IF Has(ev.writes, reg) /\ is_immediate_write(ev, reg)
    THEN [tag |-> IF /\ ev.asm.mnem = "eor" /\ Len(ev.asm.ops) >= 3
                     /\ ev.asm.ops[2] = reg /\ ev.asm.ops[3] = reg
                  THEN "immediate-zero" ELSE "immediate",
          st |-> st]
    ELSE IF Has(ev.writes, reg) /\ StartsLdr(ev.asm) /\ has_write(ev, reg)
    THEN IF MentionsPc(ev.asm) THEN [tag |-> "const-pool", st |-> st]
         ELSE termination_load(effective_address(st, events, idx), ev, idx, reg)
    ELSE [tag |-> termination_tail(ev, idx, reg), st |-> st]

\* "a in tainted_regs and a not in terminated_regs" for some alias a of reg
LiveTaint(S, reg) == \E a \in alias_names(reg) : a \in S.tr /\ a \notin S.term

\* the aliases of every register the event reads
ReadAliases(ev) == UNION {alias_names(ev.reads[j][1]) : j \in 1..Len(ev.reads)}

\* "ldr: the memory becomes tainted", e being the answer of effective_address
backward_load_mark(S, e, ev) ==
    [S EXCEPT !.st = e.st,
              !.tm = IF e.ret # None
                     THEN mark_memory_tainted(@, e.ret[1], get_mem_access_width(ev.asm))
                     ELSE @]

\* mutant: a tagged write propagates to the registers read like an untagged one
backward_write_untagged(S, T, ev, i, rd) ==
    [S EXCEPT !.used = TRUE, !.st = T.st, !.tr = @ \cup ReadAliases(ev)]

\* a tainted write, T being the answer of _check_backward_termination
backward_write_tagged(S, T, ev, i, rd) ==
    IF T.tag # ""
    THEN [S EXCEPT !.used = TRUE, !.st = T.st, !.term = @ \cup alias_names(rd)]
    ELSE IF StartsLdr(ev.asm)
    THEN backward_load_mark(
             [S EXCEPT !.used = TRUE, !.tr = @ \cup ReadAliases(ev)],
             effective_address(T.st, events, i), ev)
    ELSE [S EXCEPT !.used = TRUE, !.st = T.st, !.tr = @ \cup ReadAliases(ev)]

\* the body of "for rd in list(ev.writes.keys())"
backward_write(S, ev, i, rd) ==
    IF LiveTaint(S, rd)
    THEN backward_write_tagged(S, check_backward_termination(S.st, ev, i, rd), ev, i, rd)
    ELSE S

RECURSIVE backward_writes(_, _, _, _)
backward_writes(S, ev, i, j) ==
    IF j > Len(ev.writes) THEN S
    ELSE backward_writes(backward_write(S, ev, i, ev.writes[j][1]), ev, i, j + 1)

\* "2. a read of a tainted register is a hit"
backward_read_hit(S, ev) ==
    [S EXCEPT !.used = @ \/ \E j \in 1..Len(ev.reads) : LiveTaint(S, ev.reads[j][1])]

\* "3. a store to tainted memory", e being the answer of effective_address
backward_store_check(S, e, ev) ==
    IF e.ret # None
       /\ check_memory_tainted(S.tm, e.ret[1], get_mem_access_width(ev.asm))
    THEN [S EXCEPT !.st = e.st,
                   !.used = TRUE,
                   !.tr = @ \cup ReadAliases(ev)
                            \cup (IF parse_store_value_reg(ev.asm) # None
                                  THEN alias_names(parse_store_value_reg(ev.asm)[1])
                                  ELSE {})]
    ELSE Called(S, e)

backward_store(S, ev, i) ==
    IF StartsStr(ev.asm)
    THEN backward_store_check(S, effective_address(S.st, events, i), ev)
    ELSE S

\* one iteration of taint_backward's loop on event i, past the call filter
backward_event(S, ev, i) ==
    backward_store(backward_read_hit(backward_writes(S, ev, i, 1), ev), ev, i)

\* mutant: the hits are returned in the order of the walk
reverse_keep(q) == q

\* "hits.reverse()"
Reverse(q) == [k \in 1..Len(q) |-> q[Len(q) + 1 - k]]

\* taint_backward(start_idx, target_reg, same_call_only=..., max_steps=...) is
\* called (enable_memory_taint keeps its default, True): the statements before
\* the loop
TaintBackward(start_idx, target_reg, same_call_only, max_steps) ==
    /\ phase = "query"
    /\ tf.op = "none"
    /\ tf' = IF Len(events) = 0
             THEN TaintEmpty("backward", same_call_only, max_steps)
             ELSE LET i0 == Max(0, Min(start_idx, Len(events) - 1))
                  IN  TaintRun("backward", i0, i0, alias_names(target_reg), {},
                               events[i0 + 1].call_id, same_call_only, max_steps)
    /\ last' = [op |-> "bstart", arg |-> start_idx, before |-> tf]
    /\ UNCHANGED <<events, current_regs, reg_checkpoints, call_stack, next_call_id,
                   line, phase, regs_cache, recent_access_idx, effaddr_cache,
                   store_addr_index>>
    /\ UNCHANGED <<addr_index, reg_read_index, reg_write_index>>
    /\ returned' = IF Len(events) = 0
                   THEN Append(returned, TaintEmpty("backward", same_call_only, max_steps))
                   ELSE returned
    /\ UNCHANGED workers

\* the parser and the run after the loop body yielded S for event tf.i
BackwardStepped(S) ==
    /\ tf' = [tf EXCEPT !.i = @ - 1,
                        !.steps = @ + 1,
                        !.tainted_regs = S.tr,
                        !.tainted_mem = S.tm,
                        !.terminated_regs = S.term,
                        !.hits = IF S.used THEN Append(@, tf.i) ELSE @]
    /\ regs_cache' = S.st.rc
    /\ recent_access_idx' = S.st.recent
    /\ effaddr_cache' = S.st.ec
    /\ last' = [op |-> "bstep", arg |-> tf.i, before |-> tf]

BackwardEvent ==
    /\ tf.op = "backward" /\ tf.pc = "loop"
    /\ tf.i >= 0
    /\ tf.steps < tf.max_steps
    /\ ~call_filtered(events[tf.i + 1], tf.base_call, tf.same_call_only)
    /\ BackwardStepped(backward_event(
            [tr |-> tf.tainted_regs, tm |-> tf.tainted_mem, term |-> tf.terminated_regs,
             used |-> FALSE, st |-> Caches],
            events[tf.i + 1], tf.i))
    /\ UNCHANGED <<events, current_regs, reg_checkpoints, call_stack, next_call_id,
                   line, phase, store_addr_index>>
    /\ UNCHANGED <<addr_index, reg_read_index, reg_write_index>>
    /\ UNCHANGED <<returned, workers>>

BackwardSkip ==
    /\ tf.op = "backward" /\ tf.pc = "loop"
    /\ tf.i >= 0
    /\ tf.steps < tf.max_steps
    /\ call_filtered(events[tf.i + 1], tf.base_call, tf.same_call_only)
    /\ tf' = [tf EXCEPT !.i = @ - 1]
    /\ last' = [op |-> "bskip", arg |-> tf.i, before |-> tf]
    /\ UNCHANGED <<events, current_regs, reg_checkpoints, call_stack, next_call_id,
                   line, phase, regs_cache, recent_access_idx, effaddr_cache,
                   store_addr_index>>
    /\ UNCHANGED <<addr_index, reg_read_index, reg_write_index>>
    /\ UNCHANGED <<returned, workers>>

\* the loop ends and the call returns the hits reversed
BackwardReturn ==
    /\ tf.op = "backward" /\ tf.pc = "loop"
    /\ tf.i < 0 \/ tf.steps >= tf.max_steps
    /\ tf' = [tf EXCEPT !.pc = "done", !.result = Reverse(tf.hits)]
    /\ last' = [op |-> "breturn", arg |-> tf.i, before |-> tf]
    /\ UNCHANGED <<events, current_regs, reg_checkpoints, call_stack, next_call_id,
                   line, phase, regs_cache, recent_access_idx, effaddr_cache,
                   store_addr_index>>
    /\ UNCHANGED <<addr_index, reg_read_index, reg_write_index>>
    /\ returned' = Append(returned, tf')
    /\ UNCHANGED workers

(***************************************************************************)
(* The register reconstructor: traces of register reads and writes.       *)
(***************************************************************************)
NoList == << >>

\* the lines the reconstructor model parses
RegLines ==
    { TraceEvent(Asm("mov", <<"r0", "#1">>, NoMem, NoList),
                 << >>, <<<<"r0", 1>>>>),
      TraceEvent(Asm("add", <<"r1", "r0", "#1">>, NoMem, NoList),
                 <<<<"r0", 2>>>>, <<<<"r1", 3>>>>),
      TraceEvent(Asm("ldr", <<"r0">>, MemBase("r1"), NoList),
                 <<<<"r1", 4>>>>, <<<<"r0", 5>>>>) }

ParseRegLine ==
    /\ line < MaxLines
    /\ \E t \in RegLines : ParseLine(t)

SkipRegLine ==
    /\ line < MaxLines
    /\ SkipLine

NextRegs == ParseRegLine \/ SkipRegLine \/ FinishParse \/ ReconstructRegs

SpecRegs == Init /\ [][NextRegs]_vars

\* one event applied to a map, as the contract words it: a read value is taken
\* only for a register the map lacks, a write value always
RefStep(regs, ev) ==
    [k \in (DOMAIN regs) \cup KeySet(ev.reads) \cup KeySet(ev.writes) |->
        IF Has(ev.writes, k) THEN Get(ev.writes, k)
        ELSE IF k \in DOMAIN regs THEN regs[k]
        ELSE Get(ev.reads, k)]

RECURSIVE RefRegsAfter(_)
\* events 0..i replayed from the empty map
RefRegsAfter(i) == IF i < 0 THEN EmptyMap ELSE RefStep(RefRegsAfter(i - 1), events[i + 1])

\* C1: whatever the LRU holds and wherever the replay starts, reconstruct_regs_at(i)
\* with 0 <= i < n returns the map obtained by replaying events 0..i from the
\* empty map
C1_ReconstructIsReplay ==
    (last.op = "regs" /\ last.arg \in 0..(Len(events) - 1))
        => last.regs = RefRegsAfter(last.arg)

\* a call answered late in the trace, with a full LRU and a checkpoint taken
C1_Witness ==
    /\ last.op = "regs"
    /\ last.arg >= 2
    /\ last.arg < Len(events)
    /\ Len(regs_cache) = RegsCacheCap
    /\ DOMAIN reg_checkpoints # {}
    /\ DOMAIN last.regs = {"r0", "r1"}

(***************************************************************************)
(* The address resolver: traces of loads and stores.                      *)
(***************************************************************************)
\* the base values of the address model: one is two below the address modulus,
\* so that adding an immediate wraps
BaseVals == {AddrMod - 2, 2}

\* the lines the address model parses, r2 being the base register
AddrLines ==
    { TraceEvent(Asm("mov", <<"r2", "#0xfffe">>, NoMem, NoList),
                 << >>, <<<<"r2", AddrMod - 2>>>>) }
    \cup { TraceEvent(Asm("ldrb", <<"r1">>, MemImm("r2", 4), NoList),
                      <<<<"r2", b>>>>, <<<<"r1", 7>>>>) : b \in BaseVals }
    \cup { TraceEvent(Asm("ldr", <<"r1">>, MemPre("r2", 4), NoList),
                      <<<<"r2", b>>>>, <<<<"r1", 7>>, <<"r2", (b + 4) % AddrMod>>>>)
           : b \in BaseVals }
    \cup { TraceEvent(Asm("ldr", <<"r1">>, MemPost("r2", 4), NoList),
                      <<<<"r2", b>>>>, <<<<"r1", 7>>, <<"r2", (b + 4) % AddrMod>>>>)
           : b \in BaseVals }
    \cup { TraceEvent(Asm("ldr", <<"r2">>, MemBase("r2"), NoList),
                      <<<<"r2", b>>>>, <<<<"r2", 9>>>>) : b \in BaseVals }
    \cup { TraceEvent(Asm("str", <<"r1">>, MemIdxShift("r2", "r3", "lsl", 1), NoList),
                      <<<<"r1", 7>>, <<"r2", b>>, <<"r3", 3>>>>, << >>) : b \in BaseVals }

\* a line the emulator can have written: a register it shows as read holds the
\* value the trace last gave it
ReadsAgree(t) ==
    \A j \in 1..Len(t.reads) :
        t.reads[j][1] \in DOMAIN current_regs => current_regs[t.reads[j][1]] = t.reads[j][2]

ParseAddrLine ==
    /\ line < MaxAddrLines
    /\ \E t \in AddrLines : ReadsAgree(t) /\ ParseLine(t)

SkipAddrLine ==
    /\ line < MaxAddrLines
    /\ SkipLine

NextAddr ==
    ParseAddrLine \/ SkipAddrLine \/ FinishParse \/ EffectiveAddress \/ ReconstructRegs

SpecAddr == Init /\ [][NextAddr]_vars

\* the registers in force before event i executes
RegsBefore(i) == RefRegsAfter(i - 1)

\* the event effective_address was last asked about
LastEvent == events[last.arg + 1]

\* the last call was effective_address(i) for a load or store with a bracketed
\* address whose base register has a value before the event
AddrAsked ==
    /\ last.op = "effaddr"
    /\ last.arg \in 0..(Len(events) - 1)
    /\ StartsLdr(LastEvent.asm) \/ StartsStr(LastEvent.asm)
    /\ LastEvent.asm.mem.has
    /\ LastEvent.asm.mem.base \in DOMAIN RegsBefore(last.arg)

\* C2: for a load or store with the address operand [base, #imm], with or
\* without a trailing "!", and a known base value, effective_address returns
\* (base + imm) modulo the address width
C2_ImmediateOffsetAdded ==
    (AddrAsked /\ LastEvent.asm.mem.imm # None)
        => last.addr = Some((RegsBefore(last.arg)[LastEvent.asm.mem.base]
                                + LastEvent.asm.mem.imm[1]) % AddrMod)

\* the address of an operand without an immediate inside the brackets, from
\* the register map regs
AddrFrom(m, regs) ==
    (regs[m.base]
        + (IF m.index # "" /\ m.index \in DOMAIN regs
           THEN regs[m.index] * Pow2(IF m.shift # None THEN m.shift[1] ELSE 0)
           ELSE 0)) % AddrMod

\* C3: effective_address(i) computes the address from the registers in force
\* before event i: an event that writes its own base (post-index, or a load into
\* its base) is resolved with the value from before that write
C3_AddressFromRegsBefore ==
    (AddrAsked /\ LastEvent.asm.mem.imm = None)
        => last.addr = Some(AddrFrom(LastEvent.asm.mem, RegsBefore(last.arg)))

(***************************************************************************)
(* Scenario S1: load, constant, store, reload, use.                       *)
(***************************************************************************)
\* the five lines of the scenario
S1Trace ==
    << TraceEvent(Asm("ldr", <<"r0">>, MemBase("r5"), NoList),
                  <<<<"r5", 32768>>>>, <<<<"r0", 4660>>>>),
       TraceEvent(Asm("mov", <<"r1", "#0x100">>, NoMem, NoList),
                  << >>, <<<<"r1", 256>>>>),
       TraceEvent(Asm("str", <<"r0">>, MemBase("r2"), NoList),
                  <<<<"r0", 4660>>, <<"r2", 36864>>>>, << >>),
       TraceEvent(Asm("ldr", <<"r3">>, MemBase("r2"), NoList),
                  <<<<"r2", 36864>>>>, <<<<"r3", 4660>>>>),
       TraceEvent(Asm("add", <<"r4", "r3", "#1">>, NoMem, NoList),
                  <<<<"r3", 4660>>>>, <<<<"r4", 4661>>>>) >>

\* the input holds lines of the scenario, in any order
ParseS1Line ==
    /\ line < MaxLines
    /\ \E k \in 1..Len(S1Trace) : ParseLine(S1Trace[k])

\* a forward query from the first event, from the loaded word or from r0
StartS1 ==
    \E sr \in {{}, {"r0"}}, sm \in {{}, {32768}}, ms \in {2, 120000} :
        TaintForward(0, sr, sm, FALSE, ms)

NextS1 == ParseS1Line \/ FinishParse \/ StartS1 \/ ForwardEvent \/ ForwardReturn

SpecS1 == Init /\ [][NextS1]_vars

\* the parsed events are the five of the scenario, in its order
IsS1 ==
    /\ Len(events) = Len(S1Trace)
    /\ \A k \in 1..Len(S1Trace) :
          /\ events[k].asm = S1Trace[k].asm
          /\ events[k].reads = S1Trace[k].reads
          /\ events[k].writes = S1Trace[k].writes

\* C5: on the trace of scenario S1, taint_forward from index 0 with the source
\* address 0x8000 and no source register returns exactly [0, 2, 3, 4]
C5_S1Hits ==
    (/\ IsS1
     /\ tf.op = "forward" /\ tf.pc = "done"
     /\ tf.i0 = 0 /\ tf.max_steps = 120000
     /\ tf.source_regs = {} /\ tf.source_mem = {32768})
        => tf.result = <<0, 2, 3, 4>>

(***************************************************************************)
(* Loads and stores under the forward engine (scenario S2).               *)
(***************************************************************************)
\* the processed event of the last loop iteration
StepEvent == events[last.arg + 1]

\* the last step was an iteration of taint_forward that processed its event
ForwardProcessed == last.op = "fstep"

\* the event of the last iteration is in the hit list
StepIsHit == \E k \in 1..Len(tf.hits) : tf.hits[k] = last.arg

\* the lines of the load / store model: r2 holds 0x1000
LoadLines ==
    { TraceEvent(Asm("str", <<"r0">>, MemBase("r2"), NoList),
                 <<<<"r0", 5>>, <<"r2", 4096>>>>, << >>),
      TraceEvent(Asm("ldrb", <<"r1">>, MemImm("r2", 2), NoList),
                 <<<<"r2", 4096>>>>, <<<<"r1", 6>>>>),
      TraceEvent(Asm("ldrb", <<"r1">>, MemImm("r2", 4), NoList),
                 <<<<"r2", 4096>>>>, <<<<"r1", 7>>>>),
      TraceEvent(Asm("ldr", <<"r3">>, MemBase("r2"), NoList),
                 <<<<"r2", 4096>>>>, <<<<"r3", 5>>>>),
      TraceEvent(Asm("add", <<"r4", "r3", "#1">>, NoMem, NoList),
                 <<<<"r3", 5>>>>, <<<<"r4", 6>>>>) }

ParseLoadLine ==
    /\ line < MaxTaintLines
    /\ \E t \in LoadLines : ParseLine(t)

\* a forward query from r0, from the byte 0x1002, or from both
StartLoad ==
    \E i0 \in 0..1, sr \in {{}, {"r0"}}, sm \in {{}, {4098}} :
        TaintForward(i0, sr, sm, FALSE, 120000)

NextLoad == ParseLoadLine \/ FinishParse \/ StartLoad \/ ForwardEvent \/ ForwardReturn

SpecLoad == Init /\ [][NextLoad]_vars

\* the address a load or store accesses, from the register values its line
\* shows as read: base plus the immediate inside the brackets (offset and
\* pre-index forms), plus a shifted index
AccessAddress(ev) ==
    LET m == ev.asm.mem
    IN  (Get(ev.reads, m.base)
           + (IF m.imm # None THEN m.imm[1] ELSE 0)
           + (IF m.index # "" /\ Has(ev.reads, m.index)
              THEN Get(ev.reads, m.index) * Pow2(IF m.shift # None THEN m.shift[1] ELSE 0)
              ELSE 0)) % AddrMod

\* the event is a load of which some accessed byte is tainted in tainted_mem
LoadsTaintedByte(ev, tainted_mem) ==
    /\ StartsLdr(ev.asm)
    /\ ev.asm.mem.has
    /\ Has(ev.reads, ev.asm.mem.base)
    /\ ByteRange(AccessAddress(ev), ev.mem_width) \cap tainted_mem # {}

\* C4: for a processed event and a written register rd that is not a
\* constant-zero write, if a read register (or its alias) is tainted or the event
\* loads a tainted byte, then rd and its aliases are tainted after the event and
\* the event is a hit
C4_PropagationToWrites ==
    ForwardProcessed =>
        \A j \in 1..Len(StepEvent.writes) :
            (/\ ~is_constant_zero_write(StepEvent, StepEvent.writes[j][1])
             /\ \/ reads_tainted(StepEvent, last.before.tainted_regs)
                \/ LoadsTaintedByte(StepEvent, last.before.tainted_mem))
                => /\ alias_names(StepEvent.writes[j][1]) \subseteq tf.tainted_regs
                   /\ StepIsHit

\* the bytes 0x1000 .. 0x1003 are the tainted memory and r2 = 0x1000 is not
\* tainted when the last event was processed
AfterStoreAt1000 ==
    /\ ForwardProcessed
    /\ last.before.tainted_mem = 4096..4099
    /\ "r2" \notin last.before.tainted_regs
    /\ Has(StepEvent.reads, "r2") /\ Get(StepEvent.reads, "r2") = 4096

\* C6: after "str r0, [r2]" tainted 0x1000 .. 0x1003, "ldrb r1, [r2, #2]" taints
\* r1 and "ldrb r1, [r2, #4]" does not
C6_ByteSpan ==
    /\ (AfterStoreAt1000 /\ StepEvent.asm = Asm("ldrb", <<"r1">>, MemImm("r2", 2), NoList))
          => "r1" \in tf.tainted_regs
    /\ (/\ AfterStoreAt1000
        /\ StepEvent.asm = Asm("ldrb", <<"r1">>, MemImm("r2", 4), NoList)
        /\ "r1" \notin last.before.tainted_regs)
          => "r1" \notin tf.tainted_regs

(***************************************************************************)
(* Constant-zero writes under the forward engine.                         *)
(***************************************************************************)
\* the lines of the constant-zero model: x1 = 7 and r1 = 7 are read
ZeroLines ==
    { TraceEvent(Asm(op, <<"x0", "x1", "x1">>, NoMem, NoList),
                 <<<<"x1", 7>>>>, <<<<"x0", 0>>>>) : op \in {"eor", "sub", "bic"} }
    \cup
    { TraceEvent(Asm(op, <<"x0", "x1", "xzr">>, NoMem, NoList),
                 <<<<"x1", 7>>>>, <<<<"x0", 0>>>>) : op \in {"mul", "mls"} }
    \cup
    { TraceEvent(Asm("mov", <<"w0", "wzr">>, NoMem, NoList), << >>, <<<<"w0", 0>>>>),
      TraceEvent(Asm("and", <<"r0", "r1", "#0">>, NoMem, NoList),
                 <<<<"r1", 7>>>>, <<<<"r0", 0>>>>),
      TraceEvent(Asm("rsb", <<"r0", "r1", "r1">>, NoMem, NoList),
                 <<<<"r1", 7>>>>, <<<<"r0", 0>>>>),
      TraceEvent(Asm("mla", <<"r0", "r1", "#0">>, NoMem, NoList),
                 <<<<"r1", 7>>>>, <<<<"r0", 0>>>>),
      TraceEvent(Asm("eor", <<"x0", "x1", "x2">>, NoMem, NoList),
                 <<<<"x1", 7>>, <<"x2", 3>>>>, <<<<"x0", 4>>>>) }

ParseZeroLine ==
    /\ line < MaxTaintLines
    /\ \E t \in ZeroLines : ParseLine(t)

StartZero ==
    \E sr \in {{"x1"}, {"x0", "x1"}, {"r0", "r1"}, {"w0"}} :
        TaintForward(0, sr, {}, FALSE, 120000)

NextZero == ParseZeroLine \/ FinishParse \/ StartZero \/ ForwardEvent \/ ForwardReturn

SpecZero == Init /\ [][NextZero]_vars

\* the text of the event is one of the constant-zero forms for rd
ConstantZeroForm(ev, rd) ==
    LET a == ev.asm
    IN  /\ Has(ev.writes, rd)
        /\ a.ops[1] = rd
        /\ \/ a.mnem = "mov" /\ Len(a.ops) = 2 /\ a.ops[2] \in {"xzr", "wzr"}
           \/ a.mnem = "and" /\ Len(a.ops) = 3 /\ a.ops[3] = "#0"
           \/ a.mnem \in {"mul", "mla", "mls"} /\ Len(a.ops) = 3
                 /\ a.ops[3] \in {"#0", "xzr", "wzr"}
           \/ a.mnem \in {"eor", "sub", "rsb", "bic"} /\ Len(a.ops) = 3
                 /\ a.ops[2] = a.ops[3]

\* C7: after a processed event that is a constant-zero write of rd, rd and its
\* aliases are not tainted, whatever the taint of the registers read, and the
\* event is a hit
C7_ConstantZeroSanitizes ==
    ForwardProcessed =>
        \A j \in 1..Len(StepEvent.writes) :
            ConstantZeroForm(StepEvent, StepEvent.writes[j][1])
                => /\ alias_names(StepEvent.writes[j][1]) \cap tf.tainted_regs = {}
                   /\ StepIsHit

\* a constant-zero write of a tainted rd that reads a tainted register was
\* processed
C7_Witness ==
    /\ ForwardProcessed
    /\ \E j \in 1..Len(StepEvent.writes) :
          /\ ConstantZeroForm(StepEvent, StepEvent.writes[j][1])
          /\ AnyTainted(StepEvent.writes[j][1], last.before.tainted_regs)
    /\ reads_tainted(StepEvent, last.before.tainted_regs)

(***************************************************************************)
(* The sanitization cascade under the forward engine.                     *)
(***************************************************************************)
\* the lines of the cascade model: x1 = 0x1000, pc = 0x2000
CascadeLines ==
    { TraceEvent(Asm("mov", <<"x0", "#1">>, NoMem, NoList), << >>, <<<<"x0", 1>>>>),
      TraceEvent(Asm("ldr", <<"x0">>, MemBase("x1"), NoList),
                 <<<<"x1", 4096>>>>, <<<<"x0", 9>>>>),
      TraceEvent(Asm("ldr", <<"r0">>, MemImm("pc", 4), NoList),
                 <<<<"pc", 8192>>>>, <<<<"r0", 9>>>>),
      TraceEvent(Asm("str", <<"x2">>, MemBase("x1"), NoList),
                 <<<<"x2", 3>>, <<"x1", 4096>>>>, << >>),
      TraceEvent(Asm("cset", <<"w0", "eq">>, NoMem, NoList), << >>, <<<<"w0", 1>>>>),
      TraceEvent(Asm("adrp", <<"x0", "#0x1000">>, NoMem, NoList),
                 << >>, <<<<"x0", 4096>>>>),
      TraceEvent(Asm("bfc", <<"r0", "#0", "#4">>, NoMem, NoList),
                 << >>, <<<<"r0", 0>>>>),
      TraceEvent(Asm("movk", <<"x0", "#0x1234">>, NoMem, NoList),
                 << >>, <<<<"x0", 4660>>>>) }

ParseCascadeLine ==
    /\ line < MaxTaintLines
    /\ \E t \in CascadeLines : ParseLine(t)

StartCascade ==
    \E i0 \in 0..1, sr \in {{"x0"}, {"r0"}, {"x2"}} :
        TaintForward(i0, sr, {}, FALSE, 120000)

NextCascade ==
    ParseCascadeLine \/ FinishParse \/ StartCascade \/ ForwardEvent \/ ForwardReturn

SpecCascade == Init /\ [][NextCascade]_vars

\* the processed event hands no taint to its written registers: no register it
\* reads is tainted and it is no load from tainted memory
NoPropagation ==
    /\ ~reads_tainted(StepEvent, last.before.tainted_regs)
    /\ ~(/\ StartsLdr(StepEvent.asm)
         /\ StepEvent.effaddr # None
         /\ check_memory_tainted(last.before.tainted_mem, StepEvent.effaddr[1],
                                 get_mem_access_width(StepEvent.asm)))

\* the rules of the cascade that remove the taint of rd: immediate write,
\* constant-pool load, cset / csetm, adrp
RemovingRule(ev, rd) ==
    \/ is_immediate_write(ev, rd)
    \/ /\ StartsLdr(ev.asm)
       /\ MentionsPc(ev.asm) \/ no_store_before(ev.effaddr, last.arg)
    \/ ev.asm.mnem \in {"cset", "csetm", "adrp"}

\* the rules of the cascade that keep the taint of rd: bfc, movk
KeepingRule(ev, rd) == ev.asm.mnem \in {"bfc", "movk"}

\* C8: for a written rd that is no constant-zero write and receives no taint, the
\* immediate-write, constant-pool, cset / csetm and adrp rules remove rd and its
\* aliases, bfc and movk leave the taint of rd as it was, and the event is a hit
\* whenever rd was tainted before it
C8_SanitizationCascade ==
    (ForwardProcessed /\ NoPropagation) =>
        \A j \in 1..Len(StepEvent.writes) :
            LET rd == StepEvent.writes[j][1]
            IN  ~is_constant_zero_write(StepEvent, rd) =>
                    /\ RemovingRule(StepEvent, rd)
                          => alias_names(rd) \cap tf.tainted_regs = {}
                    /\ (~RemovingRule(StepEvent, rd) /\ KeepingRule(StepEvent, rd))
                          => alias_names(rd) \cap tf.tainted_regs
                                = alias_names(rd) \cap last.before.tainted_regs
                    /\ (/\ RemovingRule(StepEvent, rd) \/ KeepingRule(StepEvent, rd)
                        /\ AnyTainted(rd, last.before.tainted_regs))
                          => StepIsHit

\* a movk of a tainted register that reads nothing tainted was processed
C8_Witness ==
    /\ ForwardProcessed /\ NoPropagation
    /\ StepEvent.asm.mnem = "movk"
    /\ AnyTainted("x0", last.before.tainted_regs)
    /\ "x0" \in tf.tainted_regs

(***************************************************************************)
(* pop under the forward engine.                                          *)
(***************************************************************************)
\* the lines of the pop model: sp = 0x7000
PopLines ==
    { TraceEvent(Asm("str", <<"r0">>, MemBase("sp"), NoList),
                 <<<<"r0", 5>>, <<"sp", 28672>>>>, << >>),
      TraceEvent(Asm("pop", << >>, NoMem, <<Range("r", 3, 5), One("pc")>>),
                 <<<<"sp", 28672>>>>,
                 <<<<"r3", 1>>, <<"r4", 2>>, <<"r5", 3>>, <<"pc", 8192>>>>),
      TraceEvent(Asm("pop", << >>, NoMem, <<One("r4"), One("lr")>>),
                 <<<<"sp", 28672>>>>, <<<<"r4", 2>>, <<"lr", 8192>>>>),
      TraceEvent(Asm("pop", << >>, NoMem, <<One("x1"), One("w2")>>),
                 <<<<"sp", 28672>>>>, <<<<"x1", 1>>, <<"w2", 2>>>>),
      TraceEvent(Asm("push", << >>, NoMem, <<Range("r", 0, 2), One("lr")>>),
                 <<<<"r0", 5>>, <<"r1", 6>>, <<"r2", 7>>, <<"lr", 8192>>,
                   <<"sp", 28672>>>>, << >>) }

ParsePopLine ==
    /\ line < MaxTaintLines
    /\ \E t \in PopLines : ParseLine(t)

StartPop ==
    \E i0 \in 0..1, sr \in {{}, {"r0"}}, sm \in {{}, {28672}} :
        TaintForward(i0, sr, sm, FALSE, 120000)

NextPop == ParsePopLine \/ FinishParse \/ StartPop \/ ForwardEvent \/ ForwardReturn

SpecPop == Init /\ [][NextPop]_vars

\* the registers a register list names, a range rN-rM standing for rN .. rM
ListedRegs(rlist) ==
    UNION { IF Len(rlist[j]) = 3
            THEN {RName[rlist[j][1]][k + 1] : k \in rlist[j][2]..rlist[j][3]}
            ELSE {rlist[j][1]} : j \in 1..Len(rlist) }

CallLines ==
    { TraceEvent(Asm("bl", <<"#0x1000">>, NoMem, NoList), << >>, <<<<"lr", 8192>>>>),
      TraceEvent(Asm("bx", <<"lr">>, NoMem, NoList), <<<<"lr", 8192>>>>, << >>),
      TraceEvent(Asm("mov", <<"r1", "r0">>, NoMem, NoList),
                 <<<<"r0", 5>>>>, <<<<"r1", 5>>>>),
      TraceEvent(Asm("mov", <<"r0", "r1">>, NoMem, NoList),
                 <<<<"r1", 5>>>>, <<<<"r0", 5>>>>) }

ParseCallLine ==
    /\ line < MaxTaintLines
    /\ \E t \in CallLines : ParseLine(t)

StartForwardCall ==
    \E i0 \in 0..MaxTaintLines, sr \in {{"r0"}, {"r1"}}, sco \in BOOLEAN,
       ms \in {1, 2, 120000} :
        TaintForward(i0, sr, {}, sco, ms)

StartBackwardCall ==
    \E i0 \in 0..MaxTaintLines, reg \in {"r0", "r1"}, sco \in BOOLEAN,
       ms \in {1, 2, 100000} :
        TaintBackward(i0, reg, sco, ms)

NextCall ==
    \/ ParseCallLine \/ FinishParse
    \/ StartForwardCall \/ ForwardEvent \/ ForwardSkip \/ ForwardReturn
    \/ StartBackwardCall \/ BackwardEvent \/ BackwardSkip \/ BackwardReturn

SpecCall == Init /\ [][NextCall]_vars

\* a query with same_call_only set is running or has returned
SameCallQuery == tf.op \in {"forward", "backward"} /\ tf.same_call_only /\ Len(events) > 0

\* the call_id of the clamped start event
StartCall == events[tf.i0 + 1].call_id

\* the indices the loop has visited so far
Visited ==
    IF tf.op = "forward" THEN {k \in tf.i0..(tf.i - 1) : k < Len(events)}
    ELSE {k \in (tf.i + 1)..tf.i0 : k >= 0}

\* C10: with same_call_only, the hits are events of the start event's call, an
\* iteration on an event of another call changes neither the taint state nor the
\* hits nor the step count, only events of that call are processed, and the step
\* count is the number of visited events of that call
C10_SameCallOnly ==
    SameCallQuery =>
        /\ \A k \in 1..Len(tf.hits) : events[tf.hits[k] + 1].call_id = StartCall
        /\ \A k \in 1..Len(tf.result) : events[tf.result[k] + 1].call_id = StartCall
        /\ (last.op \in {"fstep", "bstep", "fskip", "bskip"}
              /\ events[last.arg + 1].call_id # StartCall)
              => /\ tf.tainted_regs = last.before.tainted_regs
                 /\ tf.tainted_mem = last.before.tainted_mem
                 /\ tf.terminated_regs = last.before.terminated_regs
                 /\ tf.hits = last.before.hits
                 /\ tf.steps = last.before.steps
        /\ tf.pc = "loop"
              => tf.steps = Cardinality({k \in Visited : events[k + 1].call_id = StartCall})

\* an event of another call was passed over and a later event of the start
\* event's call was processed within the step budget
C10_Witness ==
    /\ SameCallQuery
    /\ last.op \in {"fstep", "bstep"}
    /\ tf.max_steps = 2 /\ tf.steps = 2
    /\ \E k \in Visited : events[k + 1].call_id # StartCall

(***************************************************************************)
(* The step budget of both engines: a query and the same query again with *)
(* one more step.                                                         *)
(***************************************************************************)
\* the first query of the caller, with any budget up to the length of the trace
StartForwardBudget ==
    /\ returned = << >>
    /\ \E i0 \in 0..MaxTaintLines, sr \in {{"r0"}, {"r1"}}, sco \in BOOLEAN,
          ms \in 0..MaxTaintLines :
          TaintForward(i0, sr, {}, sco, ms)

StartBackwardBudget ==
    /\ returned = << >>
    /\ \E i0 \in 0..MaxTaintLines, reg \in {"r0", "r1"}, sco \in BOOLEAN,
          ms \in 0..MaxTaintLines :
          TaintBackward(i0, reg, sco, ms)

\* the caller repeats the query that returned, with max_steps + 1: the statements
\* of taint_forward / taint_backward before the loop
TaintAgain ==
    /\ phase = "query"
    /\ tf.op \in {"forward", "backward"} /\ tf.pc = "done"
    /\ Len(returned) = 1
    /\ tf' = IF Len(events) = 0
             THEN TaintEmpty(tf.op, tf.same_call_only, tf.max_steps + 1)
             ELSE TaintRun(tf.op, tf.i0, tf.i0, tf.source_regs, tf.source_mem,
                           events[tf.i0 + 1].call_id, tf.same_call_only,
                           tf.max_steps + 1)
    /\ returned' = IF Len(events) = 0
                   THEN Append(returned,
                               TaintEmpty(tf.op, tf.same_call_only, tf.max_steps + 1))
                   ELSE returned
    /\ last' = [op |-> "again", arg |-> tf.i0, before |-> tf]
    /\ UNCHANGED <<events, current_regs, reg_checkpoints, call_stack, next_call_id,
                   line, phase, regs_cache, recent_access_idx, effaddr_cache,
                   store_addr_index, workers>>
    /\ UNCHANGED <<addr_index, reg_read_index, reg_write_index>>

NextBudget ==
    \/ ParseCallLine \/ FinishParse
    \/ StartForwardBudget \/ StartBackwardBudget \/ TaintAgain
    \/ ForwardEvent \/ ForwardSkip \/ ForwardReturn
    \/ BackwardEvent \/ BackwardSkip \/ BackwardReturn

SpecBudget == Init /\ [][NextBudget]_vars

\* p is a prefix of q
IsPrefix(p, q) == Len(p) <= Len(q) /\ SubSeq(q, 1, Len(p)) = p

\* p is a suffix of q
IsSuffix(p, q) == Len(p) <= Len(q) /\ SubSeq(q, Len(q) - Len(p) + 1, Len(q)) = p

\* the events the loop of run visits and the call filter lets through
Unfiltered(run) ==
    {e \in 0..(Len(events) - 1) :
        /\ IF run.op = "forward" THEN e >= run.i0 ELSE e <= run.i0
        /\ ~(run.same_call_only /\ events[e + 1].call_id # run.base_call)}

\* the first k of them in the order of the walk
FirstUnfiltered(run, k) ==
    {e \in Unfiltered(run) :
        Cardinality({f \in Unfiltered(run) :
                        IF run.op = "forward" THEN f <= e ELSE f >= e}) <= k}

\* the elements of q that are in the set S, in the order of q
Restrict(q, S) == SelectSeq(q, LAMBDA h : h \in S)

\* the same query returned twice, the second time with one more step
BudgetPair ==
    /\ Len(returned) = 2
    /\ returned[2].max_steps = returned[1].max_steps + 1
    /\ returned[2].op = returned[1].op
    /\ returned[2].i0 = returned[1].i0
    /\ returned[2].source_regs = returned[1].source_regs
    /\ returned[2].same_call_only = returned[1].same_call_only

\* C11: the list returned with max_steps = k is a prefix (forward) or a suffix
\* (backward) of the list returned with max_steps = k + 1, and it is the hits
\* of the first k unfiltered events of the walk
C11_BudgetPrefix ==
    BudgetPair =>
        /\ IF returned[1].op = "forward"
           THEN IsPrefix(returned[1].result, returned[2].result)
           ELSE IsSuffix(returned[1].result, returned[2].result)
        /\ returned[1].result
              = Restrict(returned[2].result,
                         FirstUnfiltered(returned[2], returned[1].max_steps))

\* a query that exhausted its budget with a hit returned one more hit with one
\* more step
C11_Witness ==
    /\ BudgetPair
    /\ returned[1].steps = returned[1].max_steps
    /\ Len(returned[1].result) >= 1
    /\ Len(returned[2].result) = Len(returned[1].result) + 1

(***************************************************************************)
(* The shape of the returned hit lists.                                   *)
(***************************************************************************)
\* the list q is strictly ascending
StrictlyAscending(q) == \A k \in 1..(Len(q) - 1) : q[k] < q[k + 1]

BackLines ==
    { TraceEvent(Asm("mov", <<"r1", "#4">>, NoMem, NoList), << >>, <<<<"r1", 4>>>>),
      TraceEvent(Asm("movs", <<"r1", "#4">>, NoMem, NoList), << >>, <<<<"r1", 4>>>>),
      TraceEvent(Asm("add", <<"r2", "r1", "#1">>, NoMem, NoList),
                 <<<<"r1", 4>>>>, <<<<"r2", 5>>>>),
      TraceEvent(Asm("mov", <<"r3", "r1">>, NoMem, NoList),
                 <<<<"r1", 4>>>>, <<<<"r3", 4>>>>),
      TraceEvent(Asm("eor", <<"r2", "r2", "r2">>, NoMem, NoList),
                 <<<<"r2", 5>>>>, <<<<"r2", 0>>>>),
      TraceEvent(Asm("ldr", <<"r1">>, MemImm("pc", 4), NoList),
                 <<<<"pc", 8192>>>>, <<<<"r1", 4>>>>),
      TraceEvent(Asm("str", <<"r1">>, MemBase("r0"), NoList),
                 <<<<"r1", 4>>, <<"r0", 4096>>>>, << >>),
      TraceEvent(Asm("ldr", <<"r3">>, MemBase("r0"), NoList),
                 <<<<"r0", 4096>>>>, <<<<"r3", 4>>>>) }

ParseBackLine ==
    /\ line < MaxTaintLines
    /\ \E t \in BackLines : ParseLine(t)

StartBackward ==
    \E i0 \in 0..MaxTaintLines, reg \in {"r1", "r2", "r3"}, ms \in {2, 100000} :
        TaintBackward(i0, reg, FALSE, ms)

NextBackward ==
    ParseBackLine \/ FinishParse \/ StartBackward \/ BackwardEvent \/ BackwardReturn

SpecBackward == Init /\ [][NextBackward]_vars

\* the last step was an iteration of taint_backward that processed its event
BackwardProcessed == last.op = "bstep"

\* the register is tainted and not terminated before the processed event
LiveBefore(reg) ==
    \E a \in alias_names(reg) :
        a \in last.before.tainted_regs /\ a \notin last.before.terminated_regs

\* the tag of the backward source classifier for the processed event and reg
StepTag(reg) == check_backward_termination(Caches, StepEvent, last.arg, reg).tag

\* the registers the processed event writes that are tainted and not terminated
LiveWrites ==
    {StepEvent.writes[j][1] : j \in {k \in 1..Len(StepEvent.writes) :
                                        LiveBefore(StepEvent.writes[k][1])}}

\* the processed event is a store to a tainted byte
StoresToTaintedByte ==
    /\ StartsStr(StepEvent.asm)
    /\ StepEvent.effaddr # None
    /\ check_memory_tainted(last.before.tainted_mem, StepEvent.effaddr[1],
                            get_mem_access_width(StepEvent.asm))

\* C13: a write of a tainted, unterminated rd the classifier tags makes the event
\* a hit and terminates rd and its aliases, and hands no taint to the registers
\* read; terminated_regs never shrinks, and an event that touches terminated
\* registers only is no hit
C13_TerminationStopsPropagation ==
    BackwardProcessed =>
        /\ last.before.terminated_regs \subseteq tf.terminated_regs
        /\ \A rd \in LiveWrites :
              StepTag(rd) # ""
                 => /\ StepIsHit
                    /\ alias_names(rd) \subseteq tf.terminated_regs
        /\ (/\ LiveWrites # {}
            /\ \A rd \in LiveWrites : StepTag(rd) # ""
            /\ ~StoresToTaintedByte)
              => tf.tainted_regs = last.before.tainted_regs
        /\ (/\ LiveWrites = {}
            /\ \A j \in 1..Len(StepEvent.reads) : ~LiveBefore(StepEvent.reads[j][1])
            /\ ~StoresToTaintedByte)
              => ~StepIsHit

\* a tagged write of the tainted r2 that reads the untainted r1 was processed, and
\* an earlier event that writes r2 again was processed after it
C13_Witness ==
    /\ BackwardProcessed
    /\ "r2" \in last.before.terminated_regs
    /\ "r1" \notin tf.tainted_regs
    /\ Has(StepEvent.writes, "r2")
    /\ ~StepIsHit

\* a backward query returned without exhausting its budget
BackwardRanOut ==
    /\ tf.op = "backward" /\ tf.pc = "done"
    /\ tf.steps < tf.max_steps

\* the backward source classifier tags event idx for a tainted register it writes
TaggedSource(idx) ==
    \E j \in 1..Len(events[idx + 1].writes) :
        /\ AnyTainted(events[idx + 1].writes[j][1], tf.tainted_regs)
        /\ check_backward_termination(Caches, events[idx + 1], idx,
                                      events[idx + 1].writes[j][1]).tag # ""

\* C14: the first element of the list a backward query returns, when the budget
\* did not cut it short, is an event the classifier tags for a tainted register
\* it writes
C14_EarliestIsSource ==
    (BackwardRanOut /\ Len(tf.result) >= 1) => TaggedSource(tf.result[1])

(***************************************************************************)
(* Scenario S3: a value built from the constant pool, stored and loaded.  *)
(***************************************************************************)
\* the five lines of the scenario: rs is r2, the store goes through r3 = 0x1000
\* and the load through r0 = 0x1000
S3Trace ==
    << TraceEvent(Asm("ldr", <<"r2">>, MemImm("pc", 4), NoList),
                  <<<<"pc", 8192>>>>, <<<<"r2", 7>>>>),
       TraceEvent(Asm("eor", <<"r2", "r2", "#0x14">>, NoMem, NoList),
                  <<<<"r2", 7>>>>, <<<<"r2", 19>>>>),
       TraceEvent(Asm("mvn", <<"r2", "r2">>, NoMem, NoList),
                  <<<<"r2", 19>>>>, <<<<"r2", 65516>>>>),
       TraceEvent(Asm("str", <<"r2">>, MemBase("r3"), NoList),
                  <<<<"r2", 65516>>, <<"r3", 4096>>>>, << >>),
       TraceEvent(Asm("ldr", <<"r1">>, MemBase("r0"), NoList),
                  <<<<"r0", 4096>>>>, <<<<"r1", 65516>>>>) >>

\* the input holds lines of the scenario, in any order
ParseS3Line ==
    /\ line < MaxLines
    /\ \E k \in 1..Len(S3Trace) : ParseLine(S3Trace[k])

\* a backward query from the last event
StartS3 ==
    \E reg \in {"r1", "r2"}, ms \in {2, 100000} :
        TaintBackward(Len(S3Trace) - 1, reg, FALSE, ms)

NextS3 == ParseS3Line \/ FinishParse \/ StartS3 \/ BackwardEvent \/ BackwardReturn

SpecS3 == Init /\ [][NextS3]_vars

\* the parsed events are the five of the scenario, in its order
IsS3 ==
    /\ Len(events) = Len(S3Trace)
    /\ \A k \in 1..Len(S3Trace) :
          /\ events[k].asm = S3Trace[k].asm
          /\ events[k].reads = S3Trace[k].reads
          /\ events[k].writes = S3Trace[k].writes

\* C15: on the trace of scenario S3, taint_backward on r1 from the load hits the
\* load and the store, passes through the mvn and the eor and terminates at the
\* pc-relative ldr, which the classifier tags const-pool and which is the first
\* element of the returned list
C15_S3ConstPoolSource ==
    (/\ IsS3
     /\ tf.op = "backward" /\ tf.pc = "done"
     /\ tf.i0 = 4 /\ tf.max_steps = 100000
     /\ tf.source_regs = {"r1"})
        => /\ tf.result = <<0, 1, 2, 3, 4>>
           /\ check_backward_termination(Caches, events[1], 0, "r2").tag = "const-pool"
           /\ "r2" \in tf.terminated_regs

(***************************************************************************)
(* Scenario S4: a register nothing in the trace writes.                   *)
(***************************************************************************)
\* the lines of the scenario: r0 is read, and written by the last line only
ParamLines ==
    { TraceEvent(Asm("mov", <<"r1", "#1">>, NoMem, NoList), << >>, <<<<"r1", 1>>>>),
      TraceEvent(Asm("cmp", <<"r0", "#1">>, NoMem, NoList), <<<<"r0", 5>>>>, << >>),
      TraceEvent(Asm("add", <<"r4", "r0", "r1">>, NoMem, NoList),
                 <<<<"r0", 5>>, <<"r1", 1>>>>, <<<<"r4", 6>>>>),
      TraceEvent(Asm("mov", <<"r0", "r4">>, NoMem, NoList),
                 <<<<"r4", 6>>>>, <<<<"r0", 6>>>>) }

ParseParamLine ==
    /\ line < MaxLines
    /\ \E t \in ParamLines : ParseLine(t)

\* a backward query on r0 from the event 3 events into the trace
StartParam == \E ms \in {2, 100000} : TaintBackward(3, "r0", FALSE, ms)

NextParam == ParseParamLine \/ FinishParse \/ StartParam \/ BackwardEvent \/ BackwardReturn

SpecParam == Init /\ [][NextParam]_vars

\* the start event is 3 events into the trace and reads r0, and no earlier event
\* writes r0
ReadsUnwrittenR0 ==
    /\ Len(events) >= 4
    /\ tf.op = "backward" /\ tf.i0 = 3
    /\ Has(events[4].reads, "r0")
    /\ \A k \in 1..3 : ~Has(events[k].writes, "r0")

\* C16: a backward query on r0 from an event 3 events into the trace that reads
\* r0, no earlier event writing r0, has the classifier return parameter for r0 and
\* returns exactly one hit, the start event
C16_ParameterSource ==
    (/\ ReadsUnwrittenR0
     /\ tf.pc = "done" /\ tf.max_steps = 100000)
        => /\ check_backward_termination(Caches, events[4], 3, "r0").tag = "parameter"
           /\ tf.result = <<3>>

(***************************************************************************)
(* Candidate lookup: find_value_candidates.                               *)
(***************************************************************************)
\* _get_read_value / _get_write_value on the dict d: the value under reg, else
\* under its alias
get_value(d, reg) ==
    IF Has(d, reg) THEN Some(Get(d, reg))
    ELSE IF \E a \in alias_names(reg) : Has(d, a)
    THEN Some(Get(d, CHOOSE a \in alias_names(reg) : Has(d, a)))
    ELSE None

RECURSIVE candidates_scan(_, _, _, _, _, _)
\* one of the two loops of find_value_candidates over the index list lst, from
\* its j-th element on
candidates_scan(lst, j, writes, reg, value_u32, candidates) ==
    IF j > Len(lst) THEN candidates
    ELSE candidates_scan(lst, j + 1, writes, reg, value_u32,
            IF /\ \A k \in 1..Len(candidates) : candidates[k] # lst[j]
               /\ LET v == get_value(IF writes THEN events[lst[j] + 1].writes
                                     ELSE events[lst[j] + 1].reads, reg)
                  IN  v # None /\ v[1] % AddrMod = value_u32
            THEN Append(candidates, lst[j])
            ELSE candidates)

\* mutant: the candidates stay in the order the loops found them
sort_keep(candidates) == candidates

\* "candidates.sort(key=lambda x: x[0])"
sort_by_index(candidates) == SortSeq(candidates, LAMBDA a, b : a < b)

\* find_value_candidates(reg, value): the indices of the candidates
find_value_candidates(reg, value) ==
    sort_by_index(
        candidates_scan(index_get(reg_write_index, reg), 1, TRUE, reg, value % AddrMod,
            candidates_scan(index_get(reg_read_index, reg), 1, FALSE, reg,
                            value % AddrMod, << >>)))

\* a call find_value_candidates(reg, value)
FindValueCandidates ==
    /\ phase = "query"
    /\ \E reg \in {"r1", "r3", "x0", "w0"}, value \in {4, 5, AddrMod + 5, 5 - AddrMod} :
          last' = [op |-> "candidates", arg |-> value, reg |-> reg,
                   result |-> find_value_candidates(reg, value)]
    /\ UNCHANGED <<events, current_regs, reg_checkpoints, call_stack, next_call_id,
                   line, phase, regs_cache, recent_access_idx, effaddr_cache,
                   store_addr_index, tf, returned, workers>>
    /\ UNCHANGED <<addr_index, reg_read_index, reg_write_index>>

\* the lines of the candidate model
CandLines ==
    { TraceEvent(Asm("movs", <<"r1", "#4">>, NoMem, NoList), << >>, <<<<"r1", 4>>>>),
      TraceEvent(Asm("mov", <<"r3", "r1">>, NoMem, NoList),
                 <<<<"r1", 4>>>>, <<<<"r3", 4>>>>),
      TraceEvent(Asm("add", <<"r1", "r1", "#1">>, NoMem, NoList),
                 <<<<"r1", 4>>>>, <<<<"r1", 5>>>>),
      TraceEvent(Asm("mov", <<"w0", "w1">>, NoMem, NoList),
                 <<<<"w1", 5>>>>, <<<<"w0", 5>>>>),
      TraceEvent(Asm("add", <<"x0", "x0", "x2">>, NoMem, NoList),
                 <<<<"x0", AddrMod + 5>>, <<"x2", 65531>>>>, <<<<"x0", 2 * AddrMod + 4>>>>) }

ParseCandLine ==
    /\ line < MaxTaintLines
    /\ \E t \in CandLines : ParseLine(t)

NextCand == ParseCandLine \/ FinishParse \/ FindValueCandidates

SpecCand == Init /\ [][NextCand]_vars

\* event i shows the value for reg or its alias, before or after, modulo 2^32
ShowsValue(i, reg, value) ==
    \E a \in alias_names(reg) :
        \/ Has(events[i + 1].reads, a)
              /\ (Get(events[i + 1].reads, a) - value) % AddrMod = 0
        \/ Has(events[i + 1].writes, a)
              /\ (Get(events[i + 1].writes, a) - value) % AddrMod = 0

\* C17: find_value_candidates returns, strictly ascending, exactly the events
\* that show the value for the register or its alias in their reads or writes
C17_CandidatesExact ==
    last.op = "candidates" =>
        /\ StrictlyAscending(last.result)
        /\ {last.result[k] : k \in 1..Len(last.result)}
              = {i \in 0..(Len(events) - 1) : ShowsValue(i, last.reg, last.arg)}

\* a lookup returned a write of the value that precedes a read of it, and passed
\* over an event that shows the register with another value
C17_Witness ==
    /\ last.op = "candidates"
    /\ Len(last.result) >= 2
    /\ Has(events[last.result[1] + 1].writes, last.reg)
    /\ ~Has(events[last.result[1] + 1].reads, last.reg)
    /\ Has(events[last.result[2] + 1].reads, last.reg)
    /\ Len(last.result) < Len(events)

(***************************************************************************)
(* The worker threads of the value-flow dock.                             *)
(*                                                                         *)
(* workers holds a record per TaintWorker the dock started, in the order   *)
(* of their start: run, the locals of its taint_forward call; running,    *)
(* whether the thread is in run(); interruption, whether                  *)
(* requestInterruption() was called on it; after, the loop iterations it  *)
(* took since then; emitted, whether it emitted finishedWithHits.  The    *)
(* last record is the dock's _taint_worker.  Every worker is given the    *)
(* parser of the dock, and there is no lock in the dock, the workers or   *)
(* the parser: the loop iterations of the running workers interleave.     *)
(***************************************************************************)
\* the threads of the model
MaxWorkers == 2

\* "max_steps=200000" of TaintWorker.run
WorkerBudget == 200000

\* the loop iterations within which a cancellation is to be observed, on the
\* scale of the model
CancelPoll == 1

\* the workers that are in the loop of their taint_forward call
RunningWorkers ==
    {w \in 1..Len(workers) : workers[w].running /\ workers[w].run.pc = "loop"}

\* _run_taint up to its "wait(150)": a worker is running, and its interruption
\* is requested
RunTaintInterrupt ==
    /\ phase = "query"
    /\ Len(workers) > 0
    /\ workers[Len(workers)].running
    /\ ~workers[Len(workers)].interruption
    /\ workers' = [workers EXCEPT ![Len(workers)].interruption = TRUE]
    /\ last' = [op |-> "interrupt", arg |-> Len(workers), before |-> tf]
    /\ UNCHANGED <<events, current_regs, reg_checkpoints, call_stack, next_call_id,
                   line, phase, regs_cache, recent_access_idx, effaddr_cache,
                   store_addr_index, tf, returned>>
    /\ UNCHANGED <<addr_index, reg_read_index, reg_write_index>>

\* the rest of _run_taint, when no worker was running or once "wait(150)" is
\* over, the worker having ended or not: a new TaintWorker on the same parser is
\* started, and its taint_forward call reaches its loop
RunTaintStart ==
    /\ phase = "query"
    /\ Len(workers) < MaxWorkers
    /\ Len(workers) > 0 =>
          ~workers[Len(workers)].running \/ workers[Len(workers)].interruption
    /\ \E start_idx \in 0..1, reg \in {"r0"}, same_call \in BOOLEAN :
          workers' = Append(workers,
              [run |-> IF Len(events) = 0
                       THEN TaintEmpty("forward", same_call, WorkerBudget)
                       ELSE TaintRun("forward",
                                Max(0, Min(start_idx, Len(events) - 1)),
                                Max(0, Min(start_idx, Len(events) - 1)),
                                alias_names(reg), {},
                                events[Max(0, Min(start_idx, Len(events) - 1)) + 1].call_id,
                                same_call, WorkerBudget),
               running |-> TRUE, interruption |-> FALSE, after |-> 0,
               emitted |-> FALSE, delivered |-> FALSE])
    /\ last' = [op |-> "start", arg |-> Len(workers) + 1, before |-> tf]
    /\ UNCHANGED <<events, current_regs, reg_checkpoints, call_stack, next_call_id,
                   line, phase, regs_cache, recent_access_idx, effaddr_cache,
                   store_addr_index, tf, returned>>
    /\ UNCHANGED <<addr_index, reg_read_index, reg_write_index>>

\* worker w took a loop iteration that left its locals as run
WorkerLooped(w, run) ==
    /\ workers' = [workers EXCEPT ![w].run = run,
                                  ![w].after = IF workers[w].interruption
                                               THEN @ + 1 ELSE @]
    /\ last' = [op |-> "worker", arg |-> w, before |-> workers[w].run]

\* the parser and worker w after the loop body yielded S for its event
WorkerStepped(w, S) ==
    /\ WorkerLooped(w, [workers[w].run EXCEPT
                            !.i = @ + 1,
                            !.steps = @ + 1,
                            !.tainted_regs = S.tr,
                            !.tainted_mem = S.tm,
                            !.hits = IF S.used THEN Append(@, workers[w].run.i)
                                     ELSE @])
    /\ regs_cache' = S.st.rc
    /\ recent_access_idx' = S.st.recent
    /\ effaddr_cache' = S.st.ec

\* worker w is in the loop of taint_forward and the loop goes on: the loop has
\* no test of the interruption
WorkerInLoop(w) ==
    /\ workers[w].running
    /\ workers[w].run.pc = "loop"
    /\ workers[w].run.i < Len(events)
    /\ workers[w].run.steps < workers[w].run.max_steps

\* one iteration of the loop of a worker that processes its event
WorkerEvent ==
    \E w \in 1..Len(workers) :
        /\ WorkerInLoop(w)
        /\ ~call_filtered(events[workers[w].run.i + 1], workers[w].run.base_call,
                          workers[w].run.same_call_only)
        /\ WorkerStepped(w, forward_event(
                [tr |-> workers[w].run.tainted_regs, tm |-> workers[w].run.tainted_mem,
                 used |-> FALSE, st |-> Caches, eff |-> None],
                events[workers[w].run.i + 1], workers[w].run.i))
        /\ UNCHANGED <<events, current_regs, reg_checkpoints, call_stack,
                       next_call_id, line, phase, store_addr_index, tf, returned>>
    /\ UNCHANGED <<addr_index, reg_read_index, reg_write_index>>

\* one iteration of the loop of a worker the call filter ends
WorkerSkip ==
    \E w \in 1..Len(workers) :
        /\ WorkerInLoop(w)
        /\ call_filtered(events[workers[w].run.i + 1], workers[w].run.base_call,
                         workers[w].run.same_call_only)
        /\ WorkerLooped(w, [workers[w].run EXCEPT !.i = @ + 1])
        /\ UNCHANGED <<events, current_regs, reg_checkpoints, call_stack,
                       next_call_id, line, phase, regs_cache, recent_access_idx,
                       effaddr_cache, store_addr_index, tf, returned>>
    /\ UNCHANGED <<addr_index, reg_read_index, reg_write_index>>

\* taint_forward returns to TaintWorker.run, which emits the hits unless the
\* interruption was requested, and the thread ends
WorkerReturn ==
    \E w \in 1..Len(workers) :
        /\ workers[w].running
        /\ ~WorkerInLoop(w)
        /\ workers' = [workers EXCEPT
                          ![w].run = [@ EXCEPT !.pc = "done",
                                               !.result = dedupe(workers[w].run.hits, 1, << >>)],
                          ![w].running = FALSE,
                          ![w].emitted = ~workers[w].interruption]
        /\ returned' = Append(returned, workers'[w].run)
        /\ last' = [op |-> "wreturn", arg |-> w, before |-> workers[w].run]
        /\ UNCHANGED <<events, current_regs, reg_checkpoints, call_stack,
                       next_call_id, line, phase, regs_cache, recent_access_idx,
                       effaddr_cache, store_addr_index, tf>>
    /\ UNCHANGED <<addr_index, reg_read_index, reg_write_index>>

NextWorkers ==
    \/ ParseCallLine
    \/ FinishParse
    \/ RunTaintInterrupt
    \/ RunTaintStart
    \/ WorkerEvent
    \/ WorkerSkip
    \/ WorkerReturn

SpecWorkers == Init /\ [][NextWorkers]_vars

\* C18: at any time at most one worker thread is executing a query of the
\* parser the workers share, so that no two threads mutate its caches
C18_QueriesSerialized == Cardinality(RunningWorkers) <= 1

\* C19: a taint query whose cancellation was requested stops within the poll
\* interval: it takes no more loop iterations than that after the request
C19_CancellationObserved ==
    \A w \in 1..Len(workers) : workers[w].after <= CancelPoll

(***************************************************************************)
(* The reads of an event against the registers before it.                 *)
(***************************************************************************)
\* the events before event i that write r, and those that read it
WritersBefore(r, i) == {j \in 0..(i - 1) : Has(events[j + 1].writes, r)}

ReadersBefore(r, i) == {j \in 0..(i - 1) : Has(events[j + 1].reads, r)}

\* the value the trace gives r before event i: that of the last write of r, or
\* with no write that of the first read of r
Established(r, i) ==
    IF WritersBefore(r, i) # {}
    THEN Get(events[(CHOOSE j \in WritersBefore(r, i) :
                        \A k \in WritersBefore(r, i) : k <= j) + 1].writes, r)
    ELSE Get(events[(CHOOSE j \in ReadersBefore(r, i) :
                        \A k \in ReadersBefore(r, i) : j <= k) + 1].reads, r)

\* the last call was reconstruct_regs_at(i - 1) for an event i > 0 of the trace
RegsBeforeEvent == last.op = "regs" /\ last.arg >= 0 /\ last.arg + 1 < Len(events)

\* C20 as stated: a register event i reads has in reconstruct_regs_at(i - 1) the
\* value event i shows for it, unless no earlier event reads or writes it
C20_ReadsMatchBefore ==
    RegsBeforeEvent =>
        \A r \in KeySet(events[last.arg + 2].reads) :
            \/ r \in DOMAIN last.regs /\ last.regs[r] = Get(events[last.arg + 2].reads, r)
            \/ WritersBefore(r, last.arg + 1) \cup ReadersBefore(r, last.arg + 1) = {}

\* C20: a register event i reads is in reconstruct_regs_at(i - 1) exactly if an
\* earlier event reads or writes it, and its value there is the one the earlier
\* events establish, the last write or else the first read, whatever event i shows
C20_ReadsEstablishedBefore ==
    RegsBeforeEvent =>
        \A r \in KeySet(events[last.arg + 2].reads) :
            IF WritersBefore(r, last.arg + 1) \cup ReadersBefore(r, last.arg + 1) = {}
            THEN r \notin DOMAIN last.regs
            ELSE r \in DOMAIN last.regs /\ last.regs[r] = Established(r, last.arg + 1)

\* the registers before an event that reads r0 were reconstructed, r0 having been
\* read first and written later, and the event shows neither value
C20_Witness ==
    /\ RegsBeforeEvent
    /\ Has(events[last.arg + 2].reads, "r0")
    /\ \E j \in ReadersBefore("r0", last.arg + 1), k \in WritersBefore("r0", last.arg + 1) :
          j < k /\ Get(events[j + 1].reads, "r0") # Get(events[k + 1].writes, "r0")
    /\ "r0" \in DOMAIN last.regs
    /\ last.regs["r0"] # Get(events[last.arg + 2].reads, "r0")

(***************************************************************************)
(* The call annotator over traces of calls and returns.                   *)
(***************************************************************************)
\* the lines of the annotation model
AnnotLines ==
    { TraceEvent(Asm("bl", <<"#0x1000">>, NoMem, NoList), << >>, <<<<"lr", 8192>>>>),
      TraceEvent(Asm("blx", <<"r3">>, NoMem, NoList),
                 <<<<"r3", 4096>>>>, <<<<"lr", 8192>>>>),
      TraceEvent(Asm("bx", <<"lr">>, NoMem, NoList), <<<<"lr", 8192>>>>, << >>),
      TraceEvent(Asm("pop", << >>, NoMem, <<One("r4"), One("pc")>>),
                 << >>, <<<<"r4", 1>>>>),
      TraceEvent(Asm("mov", <<"r1", "r0">>, NoMem, NoList),
                 <<<<"r0", 5>>>>, <<<<"r1", 5>>>>) }

ParseAnnotLine ==
    /\ line < MaxLines
    /\ \E t \in AnnotLines : ParseLine(t)

SkipAnnotLine ==
    /\ line < MaxLines
    /\ SkipLine

NextAnnot == ParseAnnotLine \/ SkipAnnotLine \/ FinishParse

SpecAnnot == Init /\ [][NextAnnot]_vars

\* the bl/blx events among the first i events
CallsBefore(i) == {j \in 0..(i - 1) : events[j + 1].asm.mnem \in {"bl", "blx"}}

RECURSIVE StackBefore(_)
\* the call stack obtained from events[0..i): a call pushes the next of the ids
\* 1, 2, 3, ..., a return pops a stack that is not empty
StackBefore(i) ==
    IF i = 0 THEN << >>
    ELSE IF events[i].asm.mnem \in {"bl", "blx"}
    THEN Append(StackBefore(i - 1), Cardinality(CallsBefore(i - 1)) + 1)
    ELSE IF is_return_insn(events[i].asm) /\ StackBefore(i - 1) # << >>
    THEN SubSeq(StackBefore(i - 1), 1, Len(StackBefore(i - 1)) - 1)
    ELSE StackBefore(i - 1)

\* C21: every event carries the top (or 0) and the size of the call stack of
\* the events before it, and the call ids other than 0 first appear in the
\* order 1, 2, 3, ...
C21_CallAnnotation ==
    \A i \in 0..(Len(events) - 1) :
        /\ events[i + 1].call_depth = Len(StackBefore(i))
        /\ events[i + 1].call_id =
              IF StackBefore(i) = << >> THEN 0 ELSE StackBefore(i)[Len(StackBefore(i))]
        /\ \A c \in 1..(events[i + 1].call_id - 1) :
              \E j \in 0..(i - 1) : events[j + 1].call_id = c

\* a call within a call, the return from the inner one carrying its id, and a
\* return met with the stack empty
C21_Witness ==
    /\ Len(events) = MaxLines
    /\ \E i \in 0..(Len(events) - 1) :
          /\ is_return_insn(events[i + 1].asm)
          /\ events[i + 1].call_id = 2
          /\ events[i + 1].call_depth = 2
    /\ \E i \in 0..(Len(events) - 1) :
          /\ is_return_insn(events[i + 1].asm)
          /\ events[i + 1].call_depth = 0
    /\ call_stack = <<1>>

(***************************************************************************)
(* The memory effects _precompute_memory_effects records.                 *)
(***************************************************************************)
\* the lines of the memory model: stores and loads of every width, the bases
\* r2 = 0x1000, r3 = 0x1002, x6 = 0x1004, r5 one below the address modulus, and
\* r7 a base no line shows
MemLines ==
    { TraceEvent(Asm("str", <<"r0">>, MemBase("r2"), NoList),
                 <<<<"r0", 5>>, <<"r2", 4096>>>>, << >>),
      TraceEvent(Asm("strb", <<"r0">>, MemBase("r3"), NoList),
                 <<<<"r0", 5>>, <<"r3", 4098>>>>, << >>),
      TraceEvent(Asm("strh", <<"r0">>, MemBase("r5"), NoList),
                 <<<<"r0", 5>>, <<"r5", AddrMod - 1>>>>, << >>),
      TraceEvent(Asm("str", <<"x0">>, MemBase("x6"), NoList),
                 <<<<"x0", 5>>, <<"x6", 4100>>>>, << >>),
      TraceEvent(Asm("strd", <<"r0", "r1">>, MemBase("r2"), NoList),
                 <<<<"r0", 5>>, <<"r1", 6>>, <<"r2", 4096>>>>, << >>),
      TraceEvent(Asm("str", <<"r0">>, MemBase("r7"), NoList),
                 <<<<"r0", 5>>>>, << >>),
      TraceEvent(Asm("ldr", <<"r1">>, MemBase("r2"), NoList),
                 <<<<"r2", 4096>>>>, <<<<"r1", 5>>>>),
      TraceEvent(Asm("ldrb", <<"r1">>, MemBase("r3"), NoList),
                 <<<<"r3", 4098>>>>, <<<<"r1", 5>>>>),
      TraceEvent(Asm("ldrh", <<"r1">>, MemBase("r5"), NoList),
                 <<<<"r5", AddrMod - 1>>>>, <<<<"r1", 5>>>>),
      TraceEvent(Asm("ldrsh", <<"r1">>, MemBase("r3"), NoList),
                 <<<<"r3", 4098>>>>, <<<<"r1", 5>>>>),
      TraceEvent(Asm("ldrsb", <<"x0">>, MemBase("x6"), NoList),
                 <<<<"x6", 4100>>>>, <<<<"x0", 5>>>>),
      TraceEvent(Asm("ldr", <<"w0">>, MemBase("x6"), NoList),
                 <<<<"x6", 4100>>>>, <<<<"w0", 5>>>>),
      TraceEvent(Asm("ldrd", <<"r0", "r1">>, MemBase("r2"), NoList),
                 <<<<"r2", 4096>>>>, <<<<"r0", 5>>, <<"r1", 6>>>>),
      TraceEvent(Asm("add", <<"r4", "r3", "#1">>, NoMem, NoList),
                 <<<<"r3", 4098>>>>, <<<<"r4", 4099>>>>) }

ParseMemLine ==
    /\ line < MaxAddrLines
    /\ \E t \in MemLines : ParseLine(t)

NextMem == ParseMemLine \/ FinishParse

SpecMem == Init /\ [][NextMem]_vars

\* the bytes event i (0-based) touches by its recorded address and width, the
\* empty set when its address is not resolved
ByteSpan(i) ==
    IF events[i + 1].effaddr = None THEN {}
    ELSE {(events[i + 1].effaddr[1] + k) % AddrMod : k \in 0..(events[i + 1].mem_width - 1)}

\* the stores of the trace whose address is resolved
ResolvedStores ==
    {i \in 0..(Len(events) - 1) :
        events[i + 1].mem_op = "str" /\ events[i + 1].effaddr # None}

\* the events store_addr_index lists under the address a
StoresListedAt(a) ==
    IF a \in DOMAIN store_addr_index
    THEN {store_addr_index[a][k] : k \in 1..Len(store_addr_index[a])}
    ELSE {}

\* C22: after parsing, a store with a resolved address is listed under every byte
\* of its span and under no other address, nothing else is listed, every list
\* ascends, and the lists of the bytes a load reads hold every earlier store
\* whose span has that byte
C22_StoreIndexCoversBytes ==
    phase = "query" =>
        /\ \A a \in (DOMAIN store_addr_index) \cup UNION {ByteSpan(i) : i \in ResolvedStores} :
              StoresListedAt(a) = {s \in ResolvedStores : a \in ByteSpan(s)}
        /\ \A a \in DOMAIN store_addr_index : StrictlyAscending(store_addr_index[a])
        /\ \A l \in 0..(Len(events) - 1) :
              events[l + 1].mem_op = "ldr" =>
                 \A a \in ByteSpan(l), s \in ResolvedStores :
                    (s < l /\ a \in ByteSpan(s)) => s \in StoresListedAt(a)

\* a byte load finds the earlier 4-byte store two bytes below it, a store wraps
\* past the top of the address space, and a store stays unresolved
C22_Witness ==
    /\ phase = "query"
    /\ Len(events) = MaxAddrLines
    /\ \E s \in ResolvedStores, l \in 0..(Len(events) - 1) :
          /\ s < l
          /\ events[l + 1].mem_op = "ldr" /\ events[l + 1].mem_width = 1
          /\ events[s + 1].mem_width = 4
          /\ events[l + 1].effaddr = Some(events[s + 1].effaddr[1] + 2)
          /\ s \in StoresListedAt(events[l + 1].effaddr[1])
    /\ \E s \in ResolvedStores : ByteSpan(s) = {AddrMod - 1, 0}

\* the width the contract gives a load or store: by the suffix of the mnemonic,
\* else by its first register
ContractWidth(a) ==
    IF a.mnem \in {"ldrb", "strb", "ldrsb"} THEN 1
    ELSE IF a.mnem \in {"ldrh", "strh", "ldrsh"} THEN 2
    ELSE IF a.mnem \in {"ldrd", "strd"} THEN 8
    ELSE IF Len(a.ops) >= 1 /\ a.ops[1] \in XNames THEN 8
    ELSE 4

\* C23: after parsing, every load or store has the width its mnemonic suffix
\* gives (b 1, h 2, d 8), and without a suffix 8 for a first register xN, else 4
C23_WidthBySuffix ==
    phase = "query" =>
        \A i \in 1..Len(events) :
            (StartsLdr(events[i].asm) \/ StartsStr(events[i].asm))
                => events[i].mem_width = ContractWidth(events[i].asm)

(***************************************************************************)
(* The inverted indexes and the searches over them.                       *)
(***************************************************************************)
RECURSIVE bisect_left(_, _, _, _)
\* bisect.bisect_left(lst, x) between lo and hi (0-based)
bisect_left(lst, x, lo, hi) ==
    IF lo >= hi THEN lo
    ELSE IF lst[(lo + hi) \div 2 + 1] < x
    THEN bisect_left(lst, x, (lo + hi) \div 2 + 1, hi)
    ELSE bisect_left(lst, x, lo, (lo + hi) \div 2)

RECURSIVE bisect_right(_, _, _, _)
\* bisect.bisect_right(lst, x) between lo and hi (0-based)
bisect_right(lst, x, lo, hi) ==
    IF lo >= hi THEN lo
    ELSE IF x < lst[(lo + hi) \div 2 + 1]
    THEN bisect_right(lst, x, lo, (lo + hi) \div 2)
    ELSE bisect_right(lst, x, (lo + hi) \div 2 + 1, hi)

\* find_prev_write(reg, from_index_exclusive)
find_prev_write(reg, from_index_exclusive) ==
    LET lst == index_get(reg_write_index, reg)
        pos == bisect_left(lst, from_index_exclusive, 0, Len(lst)) - 1
    IN  IF lst = << >> \/ pos < 0 THEN None ELSE Some(lst[pos + 1])

\* find_next_write(reg, from_index_inclusive)
find_next_write(reg, from_index_inclusive) ==
    LET lst == index_get(reg_write_index, reg)
        pos == bisect_left(lst, from_index_inclusive, 0, Len(lst))
    IN  IF lst = << >> \/ pos >= Len(lst) THEN None ELSE Some(lst[pos + 1])

\* read_indices_in_range(reg, lo_exclusive, hi_exclusive): "lst[i:j]"
read_indices_in_range(reg, lo_exclusive, hi_exclusive) ==
    LET lst == index_get(reg_read_index, reg)
        i == bisect_right(lst, lo_exclusive, 0, Len(lst))
        j == bisect_left(lst, hi_exclusive, 0, Len(lst))
    IN  SubSeq(lst, i + 1, j)

\* the registers the searches are asked for: no line writes w1 or x1, and none
\* reads x0 or w0
IndexRegs == {"r1", "x0", "w1"}

\* the parser after a search over the indexes returned result
Searched(op, reg, lo, hi, result) ==
    /\ last' = [op |-> op, reg |-> reg, arg |-> lo, hi |-> hi, result |-> result]
    /\ UNCHANGED <<events, current_regs, reg_checkpoints, call_stack, next_call_id,
                   line, phase, regs_cache, recent_access_idx, effaddr_cache,
                   store_addr_index, addr_index, reg_read_index, reg_write_index,
                   tf, returned, workers>>

\* a call find_prev_write(reg, i)
FindPrevWrite ==
    /\ phase = "query"
    /\ \E reg \in IndexRegs, i \in -1..(Len(events) + 1) :
          Searched("prev_write", reg, i, i, find_prev_write(reg, i))

\* a call find_next_write(reg, i)
FindNextWrite ==
    /\ phase = "query"
    /\ \E reg \in IndexRegs, i \in -1..(Len(events) + 1) :
          Searched("next_write", reg, i, i, find_next_write(reg, i))

\* a call read_indices_in_range(reg, lo, hi)
ReadIndicesInRange ==
    /\ phase = "query"
    /\ \E reg \in IndexRegs, lo \in -1..Len(events), hi \in 0..(Len(events) + 1) :
          Searched("reads_in_range", reg, lo, hi, read_indices_in_range(reg, lo, hi))

\* the lines of the index model, each with the pc of its instruction; the last
\* one reads x1 and w1
IndexLines ==
    { [TraceEvent(Asm("movs", <<"r1", "#4">>, NoMem, NoList),
                  << >>, <<<<"r1", 4>>>>) EXCEPT !.pc = 4096],
      [TraceEvent(Asm("add", <<"r1", "r1", "#1">>, NoMem, NoList),
                  <<<<"r1", 4>>>>, <<<<"r1", 5>>>>) EXCEPT !.pc = 4100],
      [TraceEvent(Asm("mov", <<"w0", "w1">>, NoMem, NoList),
                  <<<<"w1", 5>>>>, <<<<"w0", 5>>>>) EXCEPT !.pc = 4104],
      [TraceEvent(Asm("add", <<"x0", "x1", "w1", "uxtw">>, NoMem, NoList),
                  <<<<"x1", 5>>, <<"w1", 5>>>>, <<<<"x0", 10>>>>) EXCEPT !.pc = 4112] }

ParseIndexLine ==
    /\ line < MaxTaintLines
    /\ \E t \in IndexLines : ParseLine(t)

NextIndex ==
    \/ ParseIndexLine \/ FinishParse
    \/ FindPrevWrite \/ FindNextWrite \/ ReadIndicesInRange

SpecIndex == Init /\ [][NextIndex]_vars

\* the events an index lists under a key
Listed(ix, key) == {index_get(ix, key)[k] : k \in 1..Len(index_get(ix, key))}

\* the register's name and, for xN / wN, the same number under the other letter
Counterparts(r) ==
    {r} \cup {RName[p][n] : p \in {"x", "w"},
                            n \in {m \in 1..Len(RName["x"]) :
                                      r \in {RName["x"][m], RName["w"][m]}}}

\* C24: every event is listed under its pc, and under every alias of every
\* register it reads in the read index and of every register it writes in the
\* write index
C24_EventsIndexed ==
    \A i \in 0..(Len(events) - 1) :
        /\ i \in Listed(addr_index, events[i + 1].pc)
        /\ \A r \in KeySet(events[i + 1].reads) :
              \A a \in Counterparts(r) : i \in Listed(reg_read_index, a)
        /\ \A r \in KeySet(events[i + 1].writes) :
              \A a \in Counterparts(r) : i \in Listed(reg_write_index, a)

\* an event that reads w1 and writes w0 is listed under x1 and x0, after an
\* event with another pc
C24_Witness ==
    /\ phase = "query"
    /\ \E i \in 1..(Len(events) - 1) :
          /\ KeySet(events[i + 1].reads) = {"w1"}
          /\ i \in Listed(reg_read_index, "x1")
          /\ i \in Listed(reg_write_index, "x0")
          /\ events[i + 1].pc # events[1].pc

\* the events that write, or read, reg or its alias
WritersOf(reg) ==
    {j \in 0..(Len(events) - 1) : \E a \in Counterparts(reg) : Has(events[j + 1].writes, a)}

ReadersOf(reg) ==
    {j \in 0..(Len(events) - 1) : \E a \in Counterparts(reg) : Has(events[j + 1].reads, a)}

\* the largest, or smallest, element of a set of indices as an Optional
Largest(S) == IF S = {} THEN None ELSE Some(CHOOSE j \in S : \A k \in S : k <= j)

Smallest(S) == IF S = {} THEN None ELSE Some(CHOOSE j \in S : \A k \in S : j <= k)

\* C25: find_prev_write gives the last writer of reg or its alias before i,
\* find_next_write the first one from i on, None when there is none, and
\* read_indices_in_range the readers strictly between lo and hi, each once, in
\* ascending order
C25_IndexSearches ==
    /\ last.op = "prev_write" =>
          last.result = Largest({j \in WritersOf(last.reg) : j < last.arg})
    /\ last.op = "next_write" =>
          last.result = Smallest({j \in WritersOf(last.reg) : j >= last.arg})
    /\ last.op = "reads_in_range" =>
          /\ StrictlyAscending(last.result)
          /\ {last.result[k] : k \in 1..Len(last.result)}
                = {j \in ReadersOf(last.reg) : last.arg < j /\ j < last.hi}

(***************************************************************************)
(* The caches of the address resolver seen from its caller.               *)
(***************************************************************************)
\* the caller empties the effective-address cache and the register LRU
FlushCaches ==
    /\ phase = "query"
    /\ effaddr_cache' = << >>
    /\ regs_cache' = << >>
    /\ UNCHANGED <<events, current_regs, reg_checkpoints, call_stack, next_call_id,
                   line, phase, recent_access_idx, store_addr_index, addr_index,
                   reg_read_index, reg_write_index, last, tf, returned, workers>>

\* the lines of the flush model: the base is set, loaded through with
\* writeback, loaded into, and stored through with an index; r7 is a base no
\* line shows
FlushLines ==
    { TraceEvent(Asm("mov", <<"r2", "#0xfffe">>, NoMem, NoList),
                 << >>, <<<<"r2", AddrMod - 2>>>>),
      TraceEvent(Asm("ldr", <<"r1">>, MemPre("r2", 4), NoList),
                 <<<<"r2", AddrMod - 2>>>>, <<<<"r1", 7>>, <<"r2", 2>>>>),
      TraceEvent(Asm("ldr", <<"r2">>, MemBase("r2"), NoList),
                 <<<<"r2", 2>>>>, <<<<"r2", 9>>>>),
      TraceEvent(Asm("str", <<"r1">>, MemIdxShift("r2", "r3", "lsl", 1), NoList),
                 <<<<"r1", 7>>, <<"r2", 2>>, <<"r3", 3>>>>, << >>),
      TraceEvent(Asm("ldr", <<"r1">>, MemBase("r7"), NoList),
                 << >>, <<<<"r1", 7>>>>) }

ParseFlushLine ==
    /\ line < MaxAddrLines
    /\ \E t \in FlushLines : ReadsAgree(t) /\ ParseLine(t)

NextFlush ==
    \/ ParseFlushLine \/ FinishParse
    \/ EffectiveAddress \/ ReconstructRegs \/ FlushCaches

SpecFlush == Init /\ [][NextFlush]_vars

\* the step is a call of effective_address
AddressCall == phase = "query" /\ last'.op = "effaddr"

\* C26: a call of effective_address(i) returns what it returns with both caches
\* empty, and what the call before it returned if that was for the same i
C26_CacheTransparent ==
    [][AddressCall =>
          /\ last'.addr = effective_address(
                              [rc |-> << >>, recent |-> recent_access_idx, ec |-> << >>],
                              events, last'.arg).ret
          /\ (last.op = "effaddr" /\ last.arg = last'.arg) => last'.addr = last.addr]_vars

\* an address was returned from a full address cache that holds it, the register
\* LRU holding a map as well
C26_Witness ==
    /\ last.op = "effaddr"
    /\ last.addr # None
    /\ Len(effaddr_cache) = EffaddrCacheCap
    /\ Has(effaddr_cache, last.arg)
    /\ effaddr_cache[Len(effaddr_cache)][1] = last.arg
    /\ Len(regs_cache) > 0

(***************************************************************************)
(* What puts an event in the hit list of taint_forward.                   *)
(***************************************************************************)
\* the taint the last processed event met
TaintBefore == last.before.tainted_regs

\* step 3: the event reads a tainted register
ReadHit == reads_tainted(StepEvent, TaintBefore)

\* step 4: the event is a load whose span holds a tainted byte
LoadHit ==
    /\ StartsLdr(StepEvent.asm)
    /\ StepEvent.effaddr # None
    /\ check_memory_tainted(last.before.tainted_mem, StepEvent.effaddr[1],
                            get_mem_access_width(StepEvent.asm))

\* step 5 for the written register rd: the constant-zero write, the propagation
\* to rd, or a rule of the sanitization cascade
WriteCondition(rd) ==
    \/ is_constant_zero_write(StepEvent, rd)
    \/ ReadHit \/ LoadHit
    \/ RemovingRule(StepEvent, rd)
    \/ KeepingRule(StepEvent, rd)

\* step 6: the event stores a tainted register to a resolved address
StoreHit ==
    /\ StartsStr(StepEvent.asm)
    /\ StepEvent.effaddr # None
    /\ parse_store_value_reg(StepEvent.asm) # None
    /\ AnyTainted(parse_store_value_reg(StepEvent.asm)[1], TaintBefore)

\* step 7: a rule of the instructions on several registers marks the event
MultiHit ==
    LET a == StepEvent.asm
    IN  \/ /\ a.mnem \in {"push", "stm", "stmia", "stmdb"}
           /\ \E r \in ListRegs(a) : AnyTainted(r, TaintBefore)
        \/ /\ a.mnem \in {"pop", "ldm", "ldmia", "ldmdb"}
           /\ last.before.tainted_mem # {} \/ StoreHit
        \/ /\ a.mnem = "strd"
           /\ parse_dual_regs(a) # << >>
           /\ \E k \in 1..2 : AnyTainted(parse_dual_regs(a)[k], TaintBefore)
        \/ /\ a.mnem = "ldrd"
           /\ StepEvent.effaddr # None
           /\ check_memory_tainted(last.before.tainted_mem, StepEvent.effaddr[1], 8)
        \/ /\ is_conditional_select_op(a)
           /\ parse_csel_operands(a) # << >>
           /\ \E k \in 2..3 : AnyTainted(parse_csel_operands(a)[k], TaintBefore)
        \/ /\ is_madd_op(a)
           /\ parse_madd_operands(a) # << >>
           /\ \E k \in 2..4 : AnyTainted(parse_madd_operands(a)[k], TaintBefore)

\* C27 as stated: every event of the hit list wrote a register rd for which a
\* step-5 condition held
C27_HitWroteRegister ==
    (ForwardProcessed /\ StepIsHit) =>
        \E j \in 1..Len(StepEvent.writes) : WriteCondition(StepEvent.writes[j][1])

\* C27: every event of the hit list read a tainted register, loaded a tainted
\* byte, stored a tainted register, met a rule of the multi-register
\* instructions, or wrote a register for which a step-5 condition held
C27_HitHasCause ==
    (ForwardProcessed /\ StepIsHit) =>
        \/ ReadHit
        \/ LoadHit
        \/ StoreHit
        \/ MultiHit
        \/ \E j \in 1..Len(StepEvent.writes) : WriteCondition(StepEvent.writes[j][1])

\* a store of the tainted x2, which writes no register, is in the hit list
C27_Witness ==
    /\ ForwardProcessed /\ StepIsHit
    /\ StepEvent.asm.mnem = "str"
    /\ StepEvent.writes = << >>
    /\ "x2" \in TaintBefore

(***************************************************************************)
(* The xN / wN counterparts in the taint sets of both engines.            *)
(***************************************************************************)
\* the lines of the alias model: x0 = 0x1000
AliasLines ==
    { TraceEvent(Asm("mov", <<"w1", "#4">>, NoMem, NoList), << >>, <<<<"w1", 4>>>>),
      TraceEvent(Asm("add", <<"x2", "x1", "x1">>, NoMem, NoList),
                 <<<<"x1", 4>>>>, <<<<"x2", 8>>>>),
      TraceEvent(Asm("mov", <<"w3", "w2">>, NoMem, NoList),
                 <<<<"w2", 8>>>>, <<<<"w3", 8>>>>),
      TraceEvent(Asm("cset", <<"w2", "eq">>, NoMem, NoList), << >>, <<<<"w2", 1>>>>),
      TraceEvent(Asm("str", <<"w3">>, MemBase("x0"), NoList),
                 <<<<"w3", 8>>, <<"x0", 4096>>>>, << >>),
      TraceEvent(Asm("ldr", <<"x4">>, MemBase("x0"), NoList),
                 <<<<"x0", 4096>>>>, <<<<"x4", 8>>>>) }

ParseAliasLine ==
    /\ line < MaxTaintLines
    /\ \E t \in AliasLines : ParseLine(t)

StartAliasForward ==
    \E sr \in {{"x1"}, {"w2"}} : TaintForward(0, sr, {}, FALSE, 120000)

StartAliasBackward ==
    \E reg \in {"w3", "x4"} : TaintBackward(MaxTaintLines, reg, FALSE, 100000)

NextAlias ==
    \/ ParseAliasLine \/ FinishParse
    \/ StartAliasForward \/ ForwardEvent \/ ForwardReturn
    \/ StartAliasBackward \/ BackwardEvent \/ BackwardReturn

SpecAlias == Init /\ [][NextAlias]_vars

\* a set of register names holds xN exactly when it holds wN
AliasClosed(regs) == \A r \in regs : alias_names(r) \subseteq regs

\* C28: from the source set on and after every event of taint_forward and
\* taint_backward, tainted_regs and terminated_regs hold xN exactly when they
\* hold wN
C28_TaintAliasClosed ==
    tf.op # "none" =>
        /\ AliasClosed(tf.tainted_regs)
        /\ AliasClosed(tf.terminated_regs)

\* a backward run ended at the immediate write of w1 with x1 marked as well,
\* having reached it through x2 / w2
C28_Witness ==
    /\ tf.op = "backward"
    /\ {"w1", "x1"} \subseteq tf.terminated_regs
    /\ {"w2", "x2", "w3", "x3"} \subseteq tf.tainted_regs

(***************************************************************************)
(* The queries after parsing and what they leave alone.                   *)
(***************************************************************************)
\* the trace of the frame model: a checkpoint is taken at line 4
FrameTrace ==
    << TraceEvent(Asm("mov", <<"r1", "#0x1000">>, NoMem, NoList),
                  << >>, <<<<"r1", 4096>>>>),
       TraceEvent(Asm("str", <<"r2">>, MemBase("r1"), NoList),
                  <<<<"r2", 5>>, <<"r1", 4096>>>>, << >>),
       TraceEvent(Asm("lsl", <<"r2", "r2", "r2">>, NoMem, NoList),
                  <<<<"r2", 5>>>>, <<<<"r2", 160>>>>),
       TraceEvent(Asm("ldr", <<"r3">>, MemBase("r1"), NoList),
                  <<<<"r1", 4096>>>>, <<<<"r3", 5>>>>),
       TraceEvent(Asm("mov", <<"r2", "r3">>, NoMem, NoList),
                  <<<<"r3", 5>>>>, <<<<"r2", 5>>>>) >>

ParseFrameLine ==
    /\ line < MaxLines
    /\ line < Len(FrameTrace)
    /\ ParseLine(FrameTrace[line + 1])

StartFrameForward == TaintForward(0, {"r2"}, {}, FALSE, 120000)

StartFrameBackward == TaintBackward(MaxLines, "r2", FALSE, 100000)

NextFrame ==
    \/ ParseFrameLine \/ FinishParse
    \/ ReconstructRegs \/ EffectiveAddress \/ FindValueCandidates
    \/ StartFrameForward \/ ForwardEvent \/ ForwardReturn
    \/ StartFrameBackward \/ BackwardEvent \/ BackwardReturn

SpecFrame == Init /\ [][NextFrame]_vars

LineDropped == phase = "parse" /\ line' = line + 1 /\ Len(events') = Len(events)

\* the events carry the numbers of their lines, in input order
LineNumbersAscend ==
    /\ \A k \in 1..Len(events) : events[k].line_no \in 1..line
    /\ \A k \in 1..(Len(events) - 1) : events[k].line_no < events[k + 1].line_no

\* C30: a line that does not match the grammar yields no event and leaves the
\* event list, the inverted indexes, the call stack, next_call_id and the
\* running register map as they were, the lines after it are parsed, and
\* line_no strictly increases with the event index
C30_UnmatchedLineSkipped ==
    /\ [][LineDropped =>
             /\ events' = events
             /\ addr_index' = addr_index
             /\ reg_read_index' = reg_read_index
             /\ reg_write_index' = reg_write_index
             /\ call_stack' = call_stack
             /\ next_call_id' = next_call_id
             /\ current_regs' = current_regs
             /\ phase' = "parse"]_vars
    /\ []LineNumbersAscend

\* a call was parsed, a line was dropped inside it and the next line was parsed
\* in the same call
C30_Witness ==
    \E k \in 1..(Len(events) - 1) :
        /\ is_call_insn(events[k].asm)
        /\ events[k + 1].line_no = events[k].line_no + 2
        /\ events[k + 1].call_id = next_call_id - 1
        /\ events[k + 1].call_depth = 1

(***************************************************************************)
(* The value chain of a register: value_chain_from_event and              *)
(* build_value_chain_fast.                                                *)
(***************************************************************************)
\* the verdict of _is_load_from_const_memory, e being the answer of its
\* effective_address call
const_memory_verdict(e, event_index) ==
    [ret |-> no_store_before(e.ret, event_index), st |-> e.st]

\* _is_load_from_const_memory(event_index, reg) on the cache state st
is_load_from_const_memory(st, event_index, reg) ==
    IF ~StartsLdr(events[event_index + 1].asm)
       \/ ~has_write(events[event_index + 1], reg)
    THEN [ret |-> FALSE, st |-> st]
    ELSE const_memory_verdict(effective_address(st, events, event_index), event_index)

RECURSIVE chain_writer(_, _, _)
\* "while j is not None": the nearest earlier write of reg that gave it the value
chain_writer(reg, j, value_u32) ==
    IF j = None THEN None
    ELSE IF /\ get_value(events[j[1] + 1].writes, reg) # None
            /\ get_value(events[j[1] + 1].writes, reg)[1] % AddrMod = value_u32
    THEN j
    ELSE chain_writer(reg, find_prev_write(reg, j[1]), value_u32)

\* one turn of the upstream loop past "back.append(j)", c being the answer of
\* _is_load_from_const_memory
RECURSIVE chain_back(_, _, _, _)
chain_back_turn(c, reg, j, back) ==
    IF c.ret THEN [back |-> back, st |-> c.st]
    ELSE chain_back(c.st, reg, find_prev_write(reg, j), back)

\* "while j is not None and steps_guard < 5000": the writes upstream of the
\* writer, up to an immediate write or a load from constant memory (the guard is
\* above the length of every modelled trace)
chain_back(st, reg, j, back) ==
    IF j = None THEN [back |-> back, st |-> st]
    ELSE IF is_immediate_write(events[j[1] + 1], reg)
    THEN [back |-> Append(back, j[1]), st |-> st]
    ELSE chain_back_turn(is_load_from_const_memory(st, j[1], reg), reg, j[1],
                         Append(back, j[1]))

\* "k2 if k2 is not None else n"
cutoff_of(k2) == IF k2 # None THEN k2[1] ELSE Len(events)

RECURSIVE chain_same(_, _, _, _)
\* "while k is not None": the later writes of the same value and their reads
chain_same(reg, k, value_u32, chain) ==
    IF k = None THEN chain
    ELSE IF \/ get_value(events[k[1] + 1].writes, reg) = None
            \/ get_value(events[k[1] + 1].writes, reg)[1] % AddrMod # value_u32
    THEN chain
    ELSE chain_same(reg, find_next_write(reg, k[1] + 1), value_u32,
                    Append(chain, k[1])
                    \o read_indices_in_range(reg, k[1],
                                             cutoff_of(find_next_write(reg, k[1] + 1))))

\* the writer build_value_chain_fast starts from
chain_start(reg, start_idx, value_u32, side) ==
    IF /\ side = "after"
       /\ get_value(events[start_idx + 1].writes, reg) # None
       /\ get_value(events[start_idx + 1].writes, reg)[1] % AddrMod = value_u32
    THEN start_idx
    ELSE IF chain_writer(reg, find_prev_write(reg, start_idx), value_u32) = None
    THEN start_idx
    ELSE chain_writer(reg, find_prev_write(reg, start_idx), value_u32)[1]

\* the chain from the writer on, bk being the answer of the upstream loop:
\* "chain = sorted(set(chain))"
chain_from(bk, reg, writer_idx, value_u32) ==
    [ret |-> sort_by_index(dedupe(
                 chain_same(reg, find_next_write(reg, writer_idx + 1), value_u32,
                            Reverse(bk.back) \o <<writer_idx>>
                            \o read_indices_in_range(
                                   reg, writer_idx,
                                   cutoff_of(find_next_write(reg, writer_idx + 1)))),
                 1, << >>)),
     st |-> bk.st]

\* build_value_chain_fast(reg, start_idx, value_u32, side) on the cache state st
build_value_chain_fast(st, reg, start_idx, value_u32, side) ==
    chain_from(chain_back(st, reg,
                          find_prev_write(reg,
                              chain_start(reg, Max(0, Min(start_idx, Len(events) - 1)),
                                          value_u32, side)),
                          << >>),
               reg,
               chain_start(reg, Max(0, Min(start_idx, Len(events) - 1)), value_u32, side),
               value_u32)

\* "self.events[event_index]" raises IndexError outside -n .. n-1
index_error(event_index) ==
    event_index >= Len(events) \/ event_index < -Len(events)

\* "self.events[event_index]": a negative index counts from the end
list_item(event_index) ==
    events[(IF event_index < 0 THEN Len(events) + event_index ELSE event_index) + 1]

\* the value value_chain_from_event looks for when the event shows it
shown_value(ev, reg, side) ==
    IF side = "after" /\ get_value(ev.writes, reg) # None THEN get_value(ev.writes, reg)
    ELSE IF get_value(ev.reads, reg) # None THEN get_value(ev.reads, reg)
    ELSE get_value(ev.writes, reg)

\* "self.reconstruct_regs_at(...).get(reg)", r being the answer of the call
chain_of_reconstructed(r, reg, event_index, side) ==
    IF reg \in DOMAIN r.ret
    THEN build_value_chain_fast([rc |-> r.cache, recent |-> r.recent, ec |-> r.ec],
                                reg, event_index, r.ret[reg] % AddrMod, side)
         @@ [raised |-> FALSE]
    ELSE [raised |-> FALSE, ret |-> << >>,
          st |-> [rc |-> r.cache, recent |-> r.recent, ec |-> r.ec]]

\* value_chain_from_event(reg, event_index, side) on the cache state st
value_chain_from_event(st, reg, event_index, side) ==
    IF index_error(event_index)
    THEN [raised |-> TRUE, ret |-> << >>, st |-> st]
    ELSE IF shown_value(list_item(event_index), reg, side) # None
    THEN build_value_chain_fast(st, reg, event_index,
                                shown_value(list_item(event_index), reg, side)[1]
                                    % AddrMod, side)
         @@ [raised |-> FALSE]
    ELSE chain_of_reconstructed(
             reconstruct_regs_at(st.rc, st.recent,
                                 IF side = "before" THEN event_index - 1
                                 ELSE event_index) @@ [ec |-> st.ec],
             reg, event_index, side)

\* the registers and sides value_chain_from_event is asked for
ChainRegs == {"r1", "r2"}

Sides == {"before", "after"}

\* the parser after value_chain_from_event(reg, i, side) answered v
ChainAnswered(v, reg, i, side) ==
    /\ last' = [op |-> "chain", arg |-> i, reg |-> reg, side |-> side,
                raised |-> v.raised, result |-> v.ret]
    /\ regs_cache' = v.st.rc
    /\ recent_access_idx' = v.st.recent
    /\ effaddr_cache' = v.st.ec

\* a call value_chain_from_event(reg, i, side)
ValueChainFromEvent ==
    /\ phase = "query"
    /\ \E reg \in ChainRegs, i \in (-Len(events) - 1)..Len(events), side \in Sides :
          ChainAnswered(value_chain_from_event(Caches, reg, i, side), reg, i, side)
    /\ UNCHANGED <<events, current_regs, reg_checkpoints, call_stack, next_call_id,
                   line, phase, store_addr_index, addr_index, reg_read_index,
                   reg_write_index, tf, returned, workers>>

\* the lines of the chain model: r0 = 0x1000
ChainLines ==
    { TraceEvent(Asm("mov", <<"r1", "#4">>, NoMem, NoList), << >>, <<<<"r1", 4>>>>),
      TraceEvent(Asm("ldr", <<"r1">>, MemBase("r0"), NoList),
                 <<<<"r0", 4096>>>>, <<<<"r1", 4>>>>),
      TraceEvent(Asm("lsl", <<"r2", "r1", "r1">>, NoMem, NoList),
                 <<<<"r1", 4>>>>, <<<<"r2", 64>>>>) }

ParseChainLine ==
    /\ line < MaxTaintLines
    /\ \E t \in ChainLines : ParseLine(t)

NextChain == ParseChainLine \/ FinishParse \/ ValueChainFromEvent \/ ReconstructRegs

SpecChain == Init /\ [][NextChain]_vars

\* C31: a query called with any integer event index (negative, past the last
\* event, or on an empty event store) returns a value and does not raise
C31_QueriesNeverRaise ==
    (phase = "query" /\ last.op \in {"regs", "effaddr", "chain"}) =>
        ~(last.op = "chain" /\ last.raised)

(***************************************************************************)
(* The capacity of the two caches.                                        *)
(***************************************************************************)
\* C32: after every reconstruct_regs_at call the reconstruction LRU holds at
\* most _regs_cache_cap entries
C32_RegsCacheBounded == Len(regs_cache) <= RegsCacheCap

\* C33: after every effective_address call the effective-address cache holds at
\* most _effaddr_cache_cap entries
C33_EffaddrCacheBounded == Len(effaddr_cache) <= EffaddrCacheCap

(***************************************************************************)
(* The byte span of the taint engines against the precomputed width.      *)
(***************************************************************************)
\* the bytes of the last processed event by its precomputed mem_width
WidthSpan ==
    {(StepEvent.effaddr[1] + k) % AddrMod : k \in 0..(StepEvent.mem_width - 1)}

\* C34: the bytes a taint engine taints at the effective address of a store of
\* a tainted register are the mem_width bytes precomputed for that event
C34_SpanIsMemWidth ==
    (ForwardProcessed /\ StoreHit) =>
        tf.tainted_mem = last.before.tainted_mem \cup WidthSpan

(***************************************************************************)
(* How the taint of a forward run shrinks.                                *)
(***************************************************************************)
\* the registers the last processed event took out of tainted_regs
Untainted == last.before.tainted_regs \ tf.tainted_regs

\* the event writes rd as a sanitizing write: a constant-zero write or, with no
\* tainted input, an immediate write, a constant-pool load, cset / csetm or adrp
SanitizingWrite(rd) ==
    \/ is_constant_zero_write(StepEvent, rd)
    \/ NoPropagation /\ RemovingRule(StepEvent, rd)

advanced_store(S, ev, i) ==
    IF /\ StartsStr(ev.asm)
       /\ parse_store_value_reg(ev.asm) # None
       /\ AnyTainted(parse_store_value_reg(ev.asm)[1], S.tr)
    THEN forward_store_mark(S, effective_address(S.st, events, i), ev)
    ELSE S

\* pop / ldm with tainted memory: "used = True" follows the loop over the list
advanced_taint_list(S, regs) == [taint_list(S, regs) EXCEPT !.used = TRUE]

\* strd with a tainted source, e being the answer of "eff3": the event is marked
\* only when the address is resolved
advanced_strd_mark(S, e) ==
    IF e.ret # None
    THEN [S EXCEPT !.st = e.st, !.tm = mark_memory_tainted(@, e.ret[1], 8),
                   !.used = TRUE]
    ELSE Called(S, e)

\* the chain push / pop / stm / ldm / strd / ldrd of advanced_taint_analysis
advanced_multi(S, ev, i) ==
    IF ev.asm.mnem \in {"pop", "ldm", "ldmia", "ldmdb"}
    THEN IF S.tm # {}
         THEN advanced_taint_list(S, parse_register_list(ev.asm.rlist, 1))
         ELSE S
    ELSE IF ev.asm.mnem = "strd"
    THEN IF parse_dual_regs(ev.asm) # << >>
            /\ \E k \in 1..2 : AnyTainted(parse_dual_regs(ev.asm)[k], S.tr)
         THEN advanced_strd_mark(S, effective_address(S.st, events, i))
         ELSE S
    ELSE forward_multi(S, ev, i)

\* the aliases of every register the event writes
WriteAliases(ev) == UNION {alias_names(ev.writes[j][1]) : j \in 1..Len(ev.writes)}

\* "for rd in ev.writes.keys(): for a in alias_names(rd): if a in tainted_regs:
\* tainted_regs.discard(a); used = True"
advanced_clean_writes(S, ev) ==
    [S EXCEPT !.tr = @ \ WriteAliases(ev),
              !.used = @ \/ (WriteAliases(ev) \cap S.tr # {})]

\* the chain csel / cset / madd / movk / adrp of advanced_taint_analysis
advanced_arm64(S, ev) ==
    IF is_conditional_select_op(ev.asm) THEN forward_arm64(S, ev)
    ELSE IF is_conditional_set_op(ev.asm) THEN advanced_clean_writes(S, ev)
    ELSE IF is_madd_op(ev.asm) THEN forward_arm64(S, ev)
    ELSE IF is_movk_op(ev.asm)
    THEN [S EXCEPT !.used = @ \/ (WriteAliases(ev) \cap S.tr # {})]
    ELSE IF is_adrp_op(ev.asm) THEN advanced_clean_writes(S, ev)
    ELSE S

\* one iteration of the loop of advanced_taint_analysis on event i, past the
\* call filter
advanced_event(S, ev, i) ==
    advanced_arm64(
        advanced_multi(
            advanced_store(
                forward_writes(
                    forward_load_hit(forward_read_hit(S, ev), ev, i),
                    ev, i, 1),
                ev, i),
            ev, i),
        ev)

\* the locals of a run after the loop body yielded S for event i
run_stepped(R, S, i) ==
    [tr |-> S.tr, tm |-> S.tm, st |-> S.st, steps |-> R.steps + 1,
     hits |-> IF S.used THEN Append(R.hits, i) ELSE R.hits]

\* the locals of a run before its loop
run_start(st, source_regs, source_mem_addrs) ==
    [tr |-> UNION {alias_names(r) : r \in source_regs},
     tm |-> {a % AddrMod : a \in source_mem_addrs},
     st |-> st, steps |-> 0, hits |-> << >>]

\* the loop body on the locals R
run_body(R) == [tr |-> R.tr, tm |-> R.tm, used |-> FALSE, st |-> R.st, eff |-> None]

RECURSIVE advanced_loop(_, _, _, _, _)
\* "for i in range(i0, n)" of advanced_taint_analysis
advanced_loop(R, i, base_call, same_call_only, max_steps) ==
    IF i >= Len(events) \/ R.steps >= max_steps THEN R
    ELSE IF call_filtered(events[i + 1], base_call, same_call_only)
    THEN advanced_loop(R, i + 1, base_call, same_call_only, max_steps)
    ELSE advanced_loop(run_stepped(R, advanced_event(run_body(R), events[i + 1], i), i),
                       i + 1, base_call, same_call_only, max_steps)

RECURSIVE forward_loop(_, _, _, _, _)
\* "for i in range(i0, n)" of taint_forward, run to its end
forward_loop(R, i, base_call, same_call_only, max_steps) ==
    IF i >= Len(events) \/ R.steps >= max_steps THEN R
    ELSE IF call_filtered(events[i + 1], base_call, same_call_only)
    THEN forward_loop(R, i + 1, base_call, same_call_only, max_steps)
    ELSE forward_loop(run_stepped(R, forward_event(run_body(R), events[i + 1], i), i),
                      i + 1, base_call, same_call_only, max_steps)

\* advanced_taint_analysis(start_idx, source_regs, source_mem_addrs,
\* same_call_only=..., max_steps=...) on the cache state st: hits and caches
advanced_taint_analysis(st, start_idx, source_regs, source_mem_addrs, same_call_only, max_steps) ==
    IF Len(events) = 0 THEN [hits |-> << >>, st |-> st]
    ELSE [r \in {"hits", "st"} |->
            advanced_loop(run_start(st, source_regs, source_mem_addrs),
                          Max(0, Min(start_idx, Len(events) - 1)),
                          events[Max(0, Min(start_idx, Len(events) - 1)) + 1].call_id,
                          same_call_only, max_steps)[r]]

\* the hit list taint_forward returns for the same arguments
taint_forward_hits(st, start_idx, source_regs, source_mem_addrs, same_call_only, max_steps) ==
    IF Len(events) = 0 THEN << >>
    ELSE dedupe(forward_loop(run_start(st, source_regs, source_mem_addrs),
                             Max(0, Min(start_idx, Len(events) - 1)),
                             events[Max(0, Min(start_idx, Len(events) - 1)) + 1].call_id,
                             same_call_only, max_steps).hits,
                1, << >>)

\* the parser after advanced_taint_analysis answered v
AdvancedAnswered(v, start_idx, source_regs, source_mem_addrs, same_call_only, max_steps) ==
    /\ last' = [op |-> "advanced", arg |-> start_idx, regs |-> source_regs,
                mem |-> source_mem_addrs, same_call_only |-> same_call_only,
                max_steps |-> max_steps, hits |-> v.hits, before |-> Caches]
    /\ regs_cache' = v.st.rc
    /\ recent_access_idx' = v.st.recent
    /\ effaddr_cache' = v.st.ec

\* a call advanced_taint_analysis(i0, sr, sm, same_call_only=sc, max_steps=ms)
AdvancedTaintAnalysis ==
    /\ phase = "query"
    /\ \E i0 \in 0..1, sr \in {{"w1"}, {"r0"}}, sm \in {{}, {4096}},
          sc \in BOOLEAN, ms \in {2, 200000} :
          AdvancedAnswered(advanced_taint_analysis(Caches, i0, sr, sm, sc, ms),
                           i0, sr, sm, sc, ms)
    /\ UNCHANGED <<events, current_regs, reg_checkpoints, call_stack, next_call_id,
                   line, phase, store_addr_index, addr_index, reg_read_index,
                   reg_write_index, tf, returned, workers>>

\* the lines of the model: the address of the strd is not resolved
AdvancedLines ==
    { TraceEvent(Asm("cset", <<"w0", "eq">>, NoMem, NoList),
                 <<<<"w1", 1>>>>, <<<<"w0", 1>>>>),
      TraceEvent(Asm("mov", <<"w2", "w0">>, NoMem, NoList),
                 <<<<"w0", 1>>>>, <<<<"w2", 1>>>>),
      TraceEvent(Asm("strd", <<"r0", "r1">>, MemBase("r7"), NoList), << >>, << >>),
      TraceEvent(Asm("str", <<"r0">>, MemBase("r2"), NoList),
                 <<<<"r0", 5>>, <<"r2", 4096>>>>, << >>),
      TraceEvent(Asm("bl", <<"#0x2000">>, NoMem, NoList), << >>, << >>) }

ParseAdvancedLine ==
    /\ line < MaxTaintLines
    /\ \E t \in AdvancedLines : ParseLine(t)

NextAdvanced == ParseAdvancedLine \/ FinishParse \/ AdvancedTaintAnalysis

SpecAdvanced == Init /\ [][NextAdvanced]_vars

\* C36: advanced_taint_analysis with enable_memory_taint and track_constants set
\* and no targets reports the hit events of taint_forward run with the same
\* inputs, in the same order
C36_AdvancedMatchesForward ==
    (phase = "query" /\ last.op = "advanced") =>
        last.hits = taint_forward_hits(last.before, last.arg, last.regs, last.mem,
                                       last.same_call_only, last.max_steps)

(***************************************************************************)
(* The dock's slot for the hits of a TaintWorker.  finishedWithHits is    *)
(* emitted in the worker's thread and the slot runs in the thread of the  *)
(* dock, so each emission is queued and handled later, in the order of    *)
(* emission.  A worker emits only if its interruption was never requested,*)
(* and _run_taint starts the next worker only after the running one was   *)
(* interrupted, so the emissions are in the order of the workers.         *)
(***************************************************************************)
\* the emissions of finishedWithHits the dock has not handled yet
QueuedHits == {w \in 1..Len(workers) : workers[w].emitted /\ ~workers[w].delivered}

\* _on_taint_ready(hits) for the oldest queued emission: the busy state is
\* cleared and the hits, unless empty, populate the list; the slot has no test
\* of which worker the hits come from
OnTaintReady ==
    /\ QueuedHits # {}
    /\ \E w \in QueuedHits :
          /\ \A v \in QueuedHits : w <= v
          /\ workers' = [workers EXCEPT ![w].delivered = TRUE]
          /\ last' = [op |-> "ready", arg |-> w, before |-> workers[w].run,
                      busy |-> FALSE,
                      populated |-> workers[w].run.result # << >>]
    /\ UNCHANGED <<events, current_regs, reg_checkpoints, call_stack, next_call_id,
                   line, phase, regs_cache, recent_access_idx, effaddr_cache,
                   store_addr_index, tf, returned>>
    /\ UNCHANGED <<addr_index, reg_read_index, reg_write_index>>

NextDock ==
    \/ ParseCallLine
    \/ FinishParse
    \/ RunTaintInterrupt
    \/ RunTaintStart
    \/ WorkerEvent
    \/ WorkerSkip
    \/ WorkerReturn
    \/ OnTaintReady

SpecDock == Init /\ [][NextDock]_vars

\* C37: once _run_taint has started a new worker, only the hits of that worker
\* are rendered: _on_taint_ready never populates the list (and clears the busy
\* state) with the hits of an earlier worker
C37_OnlyNewestDelivered ==
    (phase = "query" /\ last.op = "ready" /\ last.populated) =>
        last.arg = Len(workers)

(***************************************************************************)
(* reconstruct_regs_at called by worker threads on one parser.  The       *)
(* function takes no lock; a thread can be switched between any two of    *)
(* its reads and writes of self._regs_cache and self._recent_access_idx.  *)
(* In this part of the model each record of workers is one thread inside  *)
(* one call: pc is its position, event_index its clamped argument, and    *)
(* start, regs, keys its locals cached_start_idx, cached_regs / regs and  *)
(* the key view its loop iterates.                                        *)
(***************************************************************************)
\* the locals of a thread entering reconstruct_regs_at(event_index)
RegsCall(event_index) ==
    [pc |-> "get", event_index |-> event_index, start |-> -1, regs |-> EmptyMap,
     keys |-> << >>, ret |-> EmptyMap, error |-> ""]

\* the threads at position pc
ThreadsAt(pc) == {w \in 1..Len(workers) : workers[w].pc = pc}

\* RegsWorker.run: a thread starts and calls reconstruct_regs_at; with no event
\* the call returns {} at once
RegsWorkerStart ==
    /\ phase = "query"
    /\ Len(workers) < MaxWorkers
    /\ IF Len(events) = 0
       THEN workers' = Append(workers, [RegsCall(0) EXCEPT !.pc = "done"])
       ELSE \E i \in 0..(Len(events) - 1) : workers' = Append(workers, RegsCall(i))
    /\ UNCHANGED <<events, current_regs, reg_checkpoints, call_stack, next_call_id,
                   line, phase, regs_cache, recent_access_idx, effaddr_cache,
                   store_addr_index, last, tf, returned>>
    /\ UNCHANGED <<addr_index, reg_read_index, reg_write_index>>

\* what a step of thread w leaves alone besides the two caches
ThreadFrame ==
    /\ UNCHANGED <<events, current_regs, reg_checkpoints, call_stack, next_call_id,
                   line, phase, effaddr_cache, store_addr_index, last, tf, returned>>
    /\ UNCHANGED <<addr_index, reg_read_index, reg_write_index>>

\* the checkpoint branch: "regs = dict(self._reg_checkpoints.get(...))" and the
\* binary search for start_idx
thread_from_checkpoint(t) ==
    LET checkpoint_line == checkpoint_line_for(events[t.event_index + 1].line_no)
    IN  [t EXCEPT !.pc = "replay",
                  !.regs = IF checkpoint_line \in DOMAIN reg_checkpoints
                           THEN reg_checkpoints[checkpoint_line] ELSE EmptyMap,
                  !.start = IF checkpoint_line # 0
                            THEN checkpoint_start(0, Len(events) - 1, checkpoint_line)
                            ELSE 0]

\* "cached = self._regs_cache.get(event_index)": a hit returns the cached map;
\* a miss computes is_sequential from self._recent_access_idx
ThreadGet ==
    \E w \in ThreadsAt("get") :
        LET t == workers[w]
            is_sequential == /\ recent_access_idx >= 0
                             /\ 0 < Abs(t.event_index - recent_access_idx)
                             /\ Abs(t.event_index - recent_access_idx) < SeqWindow
        IN  /\ IF Has(regs_cache, t.event_index)
               THEN /\ workers' = [workers EXCEPT ![w].pc = "done",
                                       ![w].ret = Get(regs_cache, t.event_index)]
                    /\ regs_cache' = ODictMoveToEnd(regs_cache, t.event_index)
                    /\ recent_access_idx' = t.event_index
               ELSE /\ workers' = [workers EXCEPT
                                       ![w].pc = IF is_sequential THEN "seq_in" ELSE "best"]
                    /\ UNCHANGED <<regs_cache, recent_access_idx>>
            /\ ThreadFrame

\* "if is_sequential and self._recent_access_idx in self._regs_cache"
ThreadSeqIn ==
    \E w \in ThreadsAt("seq_in") :
        /\ workers' = [workers EXCEPT
                          ![w].pc = IF Has(regs_cache, recent_access_idx)
                                    THEN "seq_le" ELSE "best"]
        /\ UNCHANGED <<regs_cache, recent_access_idx>>
        /\ ThreadFrame

\* "if self._recent_access_idx <= event_index"
ThreadSeqLe ==
    \E w \in ThreadsAt("seq_le") :
        /\ workers' = [workers EXCEPT
                          ![w].pc = IF recent_access_idx <= workers[w].event_index
                                    THEN "seq_start" ELSE "best"]
        /\ UNCHANGED <<regs_cache, recent_access_idx>>
        /\ ThreadFrame

\* "cached_start_idx = self._recent_access_idx"
ThreadSeqStart ==
    \E w \in ThreadsAt("seq_start") :
        /\ workers' = [workers EXCEPT ![w].pc = "seq_regs",
                                      ![w].start = recent_access_idx]
        /\ UNCHANGED <<regs_cache, recent_access_idx>>
        /\ ThreadFrame

\* "cached_regs = self._regs_cache[self._recent_access_idx]", a KeyError when
\* the key is not cached; then "regs = dict(cached_regs); start_idx =
\* cached_start_idx + 1"
ThreadSeqRegs ==
    \E w \in ThreadsAt("seq_regs") :
        /\ workers' = [workers EXCEPT ![w] =
              IF Has(regs_cache, recent_access_idx)
              THEN [@ EXCEPT !.pc = "replay",
                             !.regs = Get(regs_cache, recent_access_idx),
                             !.start = replay_start(workers[w].start)]
              ELSE [@ EXCEPT !.pc = "raised", !.error = "KeyError"]]
        /\ UNCHANGED <<regs_cache, recent_access_idx>>
        /\ ThreadFrame

\* "if cached_regs is None and self._regs_cache": the loop over
\* self._regs_cache.keys() begins; an empty cache leads to the checkpoints
ThreadBest ==
    \E w \in ThreadsAt("best") :
        /\ workers' = [workers EXCEPT ![w] =
              IF Len(regs_cache) = 0 THEN thread_from_checkpoint(@)
              ELSE [@ EXCEPT !.pc = "iter", !.keys = Keys(regs_cache)]]
        /\ UNCHANGED <<regs_cache, recent_access_idx>>
        /\ ThreadFrame

\* the loop over the keys ends: a RuntimeError ("OrderedDict mutated during
\* iteration") when the keys or their order changed since it began; else
\* best_key and "cached_regs = self._regs_cache[best_key]"
ThreadIter ==
    \E w \in ThreadsAt("iter") :
        LET t == workers[w]
            bk == best_key(regs_cache, t.event_index)
        IN  /\ workers' = [workers EXCEPT ![w] =
                  IF Keys(regs_cache) # t.keys
                  THEN [@ EXCEPT !.pc = "raised", !.error = "RuntimeError"]
                  ELSE IF bk >= 0
                  THEN [@ EXCEPT !.pc = "replay", !.regs = Get(regs_cache, bk),
                                 !.start = replay_start(bk)]
                  ELSE thread_from_checkpoint(@)]
            /\ UNCHANGED <<regs_cache, recent_access_idx>>
            /\ ThreadFrame

\* the replay loop with its mid-point snapshot
ThreadReplay ==
    \E w \in ThreadsAt("replay") :
        LET t == workers[w]
            done == replay_from(t.start, t.event_index, t.regs, regs_cache)
        IN  /\ workers' = [workers EXCEPT ![w].pc = "store", ![w].regs = done.regs]
            /\ regs_cache' = done.cache
            /\ UNCHANGED recent_access_idx
            /\ ThreadFrame

\* "self._recent_access_idx = event_index; self._regs_cache[event_index] = regs",
\* the trim, and "return regs"
ThreadStore ==
    \E w \in ThreadsAt("store") :
        LET t == workers[w]
            s == reconstruct_store([regs |-> t.regs, cache |-> regs_cache],
                                   t.event_index)
        IN  /\ workers' = [workers EXCEPT ![w].pc = "done", ![w].ret = s.ret]
            /\ regs_cache' = s.cache
            /\ recent_access_idx' = s.recent
            /\ ThreadFrame

\* the lines of the model
RaceTrace ==
    << TraceEvent(Asm("mov", <<"r0", "#1">>, NoMem, NoList), << >>, <<<<"r0", 1>>>>),
       TraceEvent(Asm("mov", <<"r1", "r0">>, NoMem, NoList),
                  <<<<"r0", 1>>>>, <<<<"r1", 1>>>>),
       TraceEvent(Asm("mov", <<"r0", "#2">>, NoMem, NoList), << >>, <<<<"r0", 2>>>>),
       TraceEvent(Asm("mov", <<"r1", "r0">>, NoMem, NoList),
                  <<<<"r0", 2>>>>, <<<<"r1", 2>>>>) >>

ParseRaceLine ==
    /\ line < MaxLines
    /\ line < Len(RaceTrace)
    /\ ParseLine(RaceTrace[line + 1])

\* a call of reconstruct_regs_at made before any worker thread is started
ReconstructBeforeWorkers == Len(workers) = 0 /\ ReconstructRegs

NextRace ==
    \/ ParseRaceLine
    \/ FinishParse
    \/ ReconstructBeforeWorkers
    \/ RegsWorkerStart
    \/ ThreadGet
    \/ ThreadSeqIn
    \/ ThreadSeqLe
    \/ ThreadSeqStart
    \/ ThreadSeqRegs
    \/ ThreadBest
    \/ ThreadIter
    \/ ThreadReplay
    \/ ThreadStore

SpecRace == Init /\ [][NextRace]_vars

\* the map a call for event_index returns when no other call is in progress
\* (from the checkpoints, with no cache entry)
sequential_regs(event_index) == reconstruct_regs_at(<< >>, -1, event_index).ret

\* C38: whatever the interleaving of two threads inside reconstruct_regs_at,
\* every call completes without an error and returns the map a sequential call
\* for its index returns
C38_ConcurrentCallsAgree ==
    phase = "query" =>
        \A w \in 1..Len(workers) :
            /\ workers[w].pc # "raised"
            /\ workers[w].pc = "done" /\ Len(events) > 0 =>
                   workers[w].ret = sequential_regs(workers[w].event_index)

(***************************************************************************)
(* The provenance graph: build_provenance_graph.  An edge is a tuple      *)
(* <<kind, src, dst, meta>>; meta is the register name of a data edge,    *)
(* and for a mem edge the masked address its "0x%08x" text renders.       *)
(***************************************************************************)
RECURSIVE prev_store_listed(_, _, _)
\* "while pos >= 0": the nearest listed store before pos + 1 that passes the
\* call test
prev_store_listed(lst, pos, same_call_id) ==
    IF pos < 0 THEN None
    ELSE IF same_call_id # None /\ events[lst[pos + 1] + 1].call_id # same_call_id[1]
    THEN prev_store_listed(lst, pos - 1, same_call_id)
    ELSE Some(lst[pos + 1])

RECURSIVE prev_store_scan(_, _, _, _, _, _)
\* the sequential scan "for j in range(from_index_exclusive - 1, -1, -1)" of
\* _find_prev_store_to_address, taken when no store is listed under addr
prev_store_scan(st, addr, j, steps, max_steps, same_call_id) ==
    IF j < 0 \/ steps >= max_steps THEN [ret |-> None, st |-> st]
    ELSE IF ~StartsStr(events[j + 1].asm)
            \/ (same_call_id # None /\ events[j + 1].call_id # same_call_id[1])
    THEN prev_store_scan(st, addr, j - 1, steps, max_steps, same_call_id)
    ELSE LET e == IF events[j + 1].effaddr # None
                  THEN [ret |-> events[j + 1].effaddr, st |-> st]
                  ELSE effective_address(st, events, j)
         IN  IF e.ret = Some(addr) THEN [ret |-> Some(j), st |-> e.st]
             ELSE prev_store_scan(e.st, addr, j - 1, steps + 1, max_steps,
                                  same_call_id)

\* _find_prev_store_to_address(addr, from_index_exclusive, max_steps,
\* same_call_id) on the cache state st
find_prev_store_to_address(st, addr, from_index_exclusive, max_steps, same_call_id) ==
    LET lst == index_get(store_addr_index, addr)
    IN  IF lst # << >>
        THEN [ret |-> prev_store_listed(
                          lst, bisect_left(lst, from_index_exclusive, 0, Len(lst)) - 1,
                          same_call_id),
              st |-> st]
        ELSE prev_store_scan(st, addr, from_index_exclusive - 1, 0, max_steps,
                             same_call_id)

\* "if cur_idx not in nodes: nodes.append(cur_idx)"
add_node(nodes, idx) ==
    IF \E k \in 1..Len(nodes) : nodes[k] = idx THEN nodes ELSE Append(nodes, idx)

\* "prev = self.find_prev_write(src_reg, idx); if prev is not None:
\* edges.append(('data', prev, idx, src_reg)); work.append((src_reg, prev))"
add_data_edge(G, src_reg, idx) ==
    LET prev == find_prev_write(src_reg, idx)
    IN  IF prev = None THEN G
        ELSE [G EXCEPT !.edges = Append(@, <<"data", prev[1], idx, src_reg>>),
                       !.work = Append(@, <<src_reg, prev[1]>>)]

RECURSIVE graph_reads(_, _, _, _)
\* "for src_reg in list(ev.reads.keys())"
graph_reads(G, reads, j, cur_idx) ==
    IF j > Len(reads) THEN G
    ELSE graph_reads(add_data_edge(G, reads[j][1], cur_idx), reads, j + 1, cur_idx)

\* the load branch once the store is looked up: s is the answer of the lookup
\* (of the second one when the first found none)
graph_store_found(G, s, addr, cur_idx) ==
    IF s.ret = None THEN [G EXCEPT !.st = s.st]
    ELSE LET store_idx == s.ret[1]
             G1 == [G EXCEPT !.st = s.st,
                             !.nodes = add_node(@, store_idx),
                             !.edges = Append(@, <<"mem", store_idx, cur_idx,
                                                   addr % AddrMod>>)]
             src_reg == parse_store_value_reg(events[store_idx + 1].asm)
         IN  IF src_reg = None THEN G1 ELSE add_data_edge(G1, src_reg[1], store_idx)

\* the first lookup of the store (same call), s being its answer
graph_store_lookup(G, s, addr, cur_idx) ==
    IF s.ret # None THEN graph_store_found(G, s, addr, cur_idx)
    ELSE graph_store_found(G,
             find_prev_store_to_address(s.st, addr, cur_idx, 6000, None),
             addr, cur_idx)

\* the load branch, e being the answer of effective_address(cur_idx)
graph_load(G, e, cur_idx) ==
    IF e.ret = None THEN [G EXCEPT !.st = e.st]
    ELSE graph_store_lookup(G,
             find_prev_store_to_address(e.st, e.ret[1], cur_idx, 1500,
                                        Some(events[cur_idx + 1].call_id)),
             e.ret[1], cur_idx)

\* the loop body past "seen_keys.add(key)" and the append to nodes
graph_visit(G, cur_reg, cur_idx) ==
    LET ev == events[cur_idx + 1]
    IN  IF is_constant_zero_write(ev, cur_reg) \/ is_immediate_write(ev, cur_reg)
        THEN G
        ELSE IF StartsLdr(ev.asm) /\ has_write(ev, cur_reg)
        THEN graph_load(G, effective_address(G.st, events, cur_idx), cur_idx)
        ELSE graph_reads(G, ev.reads, 1, cur_idx)

\* "while work and guard < max_nodes"
graph_guard(G, max_nodes) == G.work # << >> /\ G.guard < max_nodes

RECURSIVE graph_loop(_, _)
\* the work loop on G = [work, seen_keys, nodes, edges, guard, st]
graph_loop(G, max_nodes) ==
    IF ~graph_guard(G, max_nodes) THEN G
    ELSE LET key == G.work[Len(G.work)]
             G1 == [G EXCEPT !.guard = @ + 1,
                             !.work = SubSeq(@, 1, Len(@) - 1)]
         IN  IF key \in G.seen_keys THEN graph_loop(G1, max_nodes)
             ELSE graph_loop(
                      graph_visit([G1 EXCEPT !.seen_keys = @ \cup {key},
                                             !.nodes = add_node(@, key[2])],
                                  key[1], key[2]),
                      max_nodes)

\* "nodes = sorted(set(nodes))" and the edges without repetitions
graph_result(G) ==
    [nodes |-> sort_by_index(dedupe(G.nodes, 1, << >>)),
     edges |-> dedupe(G.edges, 1, << >>), st |-> G.st]

\* the writer the graph starts from: the start event when it writes the value
\* (side "after"), else the nearest earlier write of the value, else the start
graph_writer(reg, start_idx, want_val, side) ==
    LET v_here == get_value(events[start_idx + 1].writes, reg)
        w == chain_writer(reg, find_prev_write(reg, start_idx), want_val)
    IN  IF side = "after" /\ v_here # None /\ v_here[1] % AddrMod = want_val
        THEN start_idx
        ELSE IF w # None THEN w[1] ELSE start_idx

\* the graph for the value want_val
graph_of(st, reg, start_idx, want_val, side, max_nodes) ==
    graph_result(graph_loop(
        [work |-> <<<<reg, graph_writer(reg, start_idx, want_val, side)>>>>,
         seen_keys |-> {}, nodes |-> << >>, edges |-> << >>, guard |-> 0,
         st |-> st],
        max_nodes))

\* "ref = self.reconstruct_regs_at(...); want_val = ref.get(reg)", r being the
\* answer of the call
graph_of_reconstructed(r, st, reg, start_idx, side, max_nodes) ==
    IF reg \notin DOMAIN r.ret
    THEN [nodes |-> << >>, edges |-> << >>,
          st |-> [st EXCEPT !.rc = r.cache, !.recent = r.recent]]
    ELSE graph_of([st EXCEPT !.rc = r.cache, !.recent = r.recent], reg, start_idx,
                  r.ret[reg] % AddrMod, side, max_nodes)

\* build_provenance_graph(reg, start_idx, side, max_nodes) on the cache state st
build_provenance_graph(st, reg, start_idx0, side, max_nodes) ==
    IF Len(events) = 0 THEN [nodes |-> << >>, edges |-> << >>, st |-> st]
    ELSE
    LET start_idx == Max(0, Min(start_idx0, Len(events) - 1))
        ev0 == events[start_idx + 1]
        v_before == IF Has(ev0.reads, reg) THEN Some(Get(ev0.reads, reg)) ELSE None
        v_after == get_value(ev0.writes, reg)
    IN  IF side = "after" /\ v_after # None
        THEN graph_of(st, reg, start_idx, v_after[1] % AddrMod, side, max_nodes)
        ELSE IF v_before # None
        THEN graph_of(st, reg, start_idx, v_before[1] % AddrMod, side, max_nodes)
        ELSE graph_of_reconstructed(
                 reconstruct_regs_at(st.rc, st.recent,
                     IF side = "after" THEN start_idx ELSE start_idx - 1),
                 st, reg, start_idx, side, max_nodes)

\* the parser after build_provenance_graph answered g
GraphAnswered(g, reg, start_idx, side, max_nodes) ==
    /\ last' = [op |-> "graph", arg |-> start_idx, reg |-> reg, side |-> side,
                max_nodes |-> max_nodes, nodes |-> g.nodes, edges |-> g.edges]
    /\ regs_cache' = g.st.rc
    /\ recent_access_idx' = g.st.recent
    /\ effaddr_cache' = g.st.ec

\* the registers and the node limits of the model's calls
GraphRegs == {"r1", "r3"}

GraphLimits == {1, 2, 4000}

\* a call build_provenance_graph(reg, i, side, max_nodes)
BuildProvenanceGraph ==
    /\ phase = "query"
    /\ \E reg \in GraphRegs, i \in -1..Len(events), side \in Sides,
          max_nodes \in GraphLimits :
          GraphAnswered(build_provenance_graph(Caches, reg, i, side, max_nodes),
                        reg, i, side, max_nodes)
    /\ UNCHANGED <<events, current_regs, reg_checkpoints, call_stack, next_call_id,
                   line, phase, store_addr_index, addr_index, reg_read_index,
                   reg_write_index, tf, returned, workers>>

\* the lines of the model
GraphLines ==
    { TraceEvent(Asm("lsl", <<"r1", "r0", "r0">>, NoMem, NoList),
                 <<<<"r0", 1>>>>, <<<<"r1", 2>>>>),
      TraceEvent(Asm("lsl", <<"r3", "r1", "r1">>, NoMem, NoList),
                 <<<<"r1", 2>>>>, <<<<"r3", 8>>>>),
      TraceEvent(Asm("str", <<"r1">>, MemBase("r5"), NoList),
                 <<<<"r1", 2>>, <<"r5", 4096>>>>, << >>),
      TraceEvent(Asm("ldr", <<"r3">>, MemBase("r5"), NoList),
                 <<<<"r5", 4096>>>>, <<<<"r3", 2>>>>) }

ParseGraphLine ==
    /\ line < MaxTaintLines
    /\ \E t \in GraphLines : ParseLine(t)

NextGraph == ParseGraphLine \/ FinishParse \/ BuildProvenanceGraph

SpecGraph == Init /\ [][NextGraph]_vars

\* the nodes of the last graph
GraphNodes == {last.nodes[k] : k \in 1..Len(last.nodes)}

\* a graph was returned
GraphReturned == phase = "query" /\ last.op = "graph"

\* C39: in every result of build_provenance_graph, runs cut short by max_nodes
\* included, nodes is strictly ascending and every edge has kind data or mem,
\* src < dst, and src and dst in nodes
C39_GraphWellFormed ==
    GraphReturned =>
        /\ \A k \in 1..(Len(last.nodes) - 1) : last.nodes[k] < last.nodes[k + 1]
        /\ \A k \in 1..Len(last.edges) :
              /\ last.edges[k][1] \in {"data", "mem"}
              /\ last.edges[k][2] < last.edges[k][3]
              /\ last.edges[k][2] \in GraphNodes
              /\ last.edges[k][3] \in GraphNodes

(***************************************************************************)
(* taint_bitmap.py: the register-to-bit table of TaintBitmap and the      *)
(* set-like TaintBitmapAdapter.  A bitmap is a Python integer of any      *)
(* size; the model holds it as the set of its set bits.                   *)
(***************************************************************************)
\* "f'x{i}'" and "f'w{i}'" for i in range(31)
XRegNames ==
    <<"x0", "x1", "x2", "x3", "x4", "x5", "x6", "x7", "x8", "x9", "x10", "x11",
      "x12", "x13", "x14", "x15", "x16", "x17", "x18", "x19", "x20", "x21", "x22",
      "x23", "x24", "x25", "x26", "x27", "x28", "x29", "x30">>

WRegNames ==
    <<"w0", "w1", "w2", "w3", "w4", "w5", "w6", "w7", "w8", "w9", "w10", "w11",
      "w12", "w13", "w14", "w15", "w16", "w17", "w18", "w19", "w20", "w21", "w22",
      "w23", "w24", "w25", "w26", "w27", "w28", "w29", "w30">>

RRegNames ==
    <<"r0", "r1", "r2", "r3", "r4", "r5", "r6", "r7", "r8", "r9", "r10", "r11",
      "r12", "r13", "r14", "r15">>

\* a dict literal given as pairs <<key, value>>
DictOf(pairs) ==
    [k \in {pairs[j][1] : j \in 1..Len(pairs)} |->
        pairs[CHOOSE j \in 1..Len(pairs) : pairs[j][1] = k][2]]

\* "d.update(e)": the entries of e replace those of d
DictUpdate(d, e) ==
    [k \in (DOMAIN d) \cup (DOMAIN e) |-> IF k \in DOMAIN e THEN e[k] ELSE d[k]]

ARM32_REG_MAP ==
    DictUpdate([k \in {RRegNames[j] : j \in 1..16} |->
                   (CHOOSE j \in 1..16 : RRegNames[j] = k) - 1],
               DictOf(<<<<"sp", 13>>, <<"lr", 14>>, <<"pc", 15>>, <<"cpsr", 16>>>>))

ARM64_REG_MAP ==
    DictUpdate(
        DictUpdate([k \in {XRegNames[j] : j \in 1..31} |->
                       32 + (CHOOSE j \in 1..31 : XRegNames[j] = k) - 1],
                   [k \in {WRegNames[j] : j \in 1..31} |->
                       32 + (CHOOSE j \in 1..31 : WRegNames[j] = k) - 1]),
        DictOf(<<<<"sp", 63>>, <<"xzr", 64>>, <<"wzr", 64>>>>))

\* "REG_TO_BIT.update(ARM32_REG_MAP); REG_TO_BIT.update(ARM64_REG_MAP)"
REG_TO_BIT == DictUpdate(ARM32_REG_MAP, ARM64_REG_MAP)

\* add_register / remove_register / contains on the set of set bits
add_register(bitmap, reg) ==
    IF reg \in DOMAIN REG_TO_BIT THEN bitmap \cup {REG_TO_BIT[reg]} ELSE bitmap

remove_register(bitmap, reg) ==
    IF reg \in DOMAIN REG_TO_BIT THEN bitmap \ {REG_TO_BIT[reg]} ELSE bitmap

contains(bitmap, reg) == reg \in DOMAIN REG_TO_BIT /\ REG_TO_BIT[reg] \in bitmap

\* the register names the adapter of the model is called with
AdapterNames == {"r13", "sp", "r14", "lr", "x1", "w1", "xzr", "wzr"}

\* the architectural register a name stands for: xN / wN, r13 / sp, r14 / lr,
\* r15 / pc, xzr / wzr
Architectural(reg) ==
    IF reg \in {"r13", "sp"} THEN "r13"
    ELSE IF reg \in {"r14", "lr"} THEN "r14"
    ELSE IF reg \in {"r15", "pc"} THEN "r15"
    ELSE IF reg \in {"xzr", "wzr"} THEN "xzr"
    ELSE IF \E j \in 1..31 : WRegNames[j] = reg
    THEN XRegNames[CHOOSE j \in 1..31 : WRegNames[j] = reg]
    ELSE reg

\* an adapter exists: last holds its bitmap and, as history, the architectural
\* registers added and not discarded since
AdapterLive == last.op \in {"adapter", "add", "discard"}

\* TaintBitmapAdapter()
NewAdapter ==
    /\ ~AdapterLive
    /\ last' = [op |-> "adapter", reg |-> "", bitmap |-> {}, added |-> {}]
    /\ UNCHANGED <<events, current_regs, reg_checkpoints, call_stack, next_call_id,
                   line, phase, regs_cache, recent_access_idx, effaddr_cache,
                   store_addr_index, addr_index, reg_read_index, reg_write_index,
                   tf, returned, workers>>

\* adapter.add(reg)
AdapterAdd ==
    /\ AdapterLive
    /\ \E reg \in AdapterNames :
          last' = [op |-> "add", reg |-> reg,
                   bitmap |-> add_register(last.bitmap, reg),
                   added |-> last.added \cup {Architectural(reg)}]
    /\ UNCHANGED <<events, current_regs, reg_checkpoints, call_stack, next_call_id,
                   line, phase, regs_cache, recent_access_idx, effaddr_cache,
                   store_addr_index, addr_index, reg_read_index, reg_write_index,
                   tf, returned, workers>>

\* adapter.discard(reg)
AdapterDiscard ==
    /\ AdapterLive
    /\ \E reg \in AdapterNames :
          last' = [op |-> "discard", reg |-> reg,
                   bitmap |-> remove_register(last.bitmap, reg),
                   added |-> last.added \ {Architectural(reg)}]
    /\ UNCHANGED <<events, current_regs, reg_checkpoints, call_stack, next_call_id,
                   line, phase, regs_cache, recent_access_idx, effaddr_cache,
                   store_addr_index, addr_index, reg_read_index, reg_write_index,
                   tf, returned, workers>>

NextBitmap == NewAdapter \/ AdapterAdd \/ AdapterDiscard

SpecBitmap == Init /\ [][NextBitmap]_vars

\* C40: after any sequence of add / discard calls, "r in adapter" is true iff a
\* name of r's architectural register was added and none was discarded since
C40_AdapterTracksArchitectural ==
    AdapterLive =>
        \A r \in AdapterNames :
            contains(last.bitmap, r) <=> (Architectural(r) \in last.added)

====
